---- MODULE Spec2Model ----
(***************************************************************************)
(* ResearchMemory (backend/features/memory/research_memory.py): the        *)
(* in-process memory store shared by the research agents, with its three   *)
(* namespaces short_term, long_term and shared_data.                       *)
(*                                                                         *)
(* Python values are tagged records, so that isinstance() and truthiness   *)
(* are computed as Python computes them.  A Python dict is a function from *)
(* its keys (strings) to values; a list is a sequence.                     *)
(***************************************************************************)
EXTENDS Integers, Sequences, FiniteSets, TLC

(* ---------------------------------------------------------------- bounds *)
\* longest list a long-term category is grown to by append
MaxLen == 2
\* largest accessed_count a shared entry is driven to
MaxCount == 2
\* last tick of the wall clock behind datetime.now()
MaxClock == 1
\* POST /research/sync requests that run
MaxRequests == 3
\* POST /research/sync requests without a config that run
MaxRecent == 11
\* findings given to the analyst, and gathered for the synthesizer
MaxFindings == 3
\* findings whose number is scored by the analyst
MaxScored == 11
\* sources gathered for the synthesizer
MaxSources == 2
\* synthesize_report calls
MaxReports == 2
\* get_tools_manager and reset_tools_manager calls
MaxManagerCalls == 5

(* --------------------------------------------------------- Python values *)
PyNone == [t |-> "None"]
PyStr(s) == [t |-> "str", s |-> s]
PyList(items) == [t |-> "list", items |-> items]
PyDict(d) == [t |-> "dict", d |-> d]

\* {} : the dict with no keys
EmptyDict == [k \in {} |-> PyNone]

\* bool(x), as `if x:` and `x or y` evaluate it
Truthy(x) ==
    CASE x.t = "None" -> FALSE
      [] x.t = "str"  -> x.s # ""
      [] x.t = "list" -> Len(x.items) > 0
      [] x.t = "dict" -> DOMAIN x.d # {}

\* isinstance(x, list), isinstance(x, dict)
IsList(x) == x.t = "list"
IsDict(x) == x.t = "dict"

\* d[k] = v
DictSet(d, k, v) == [x \in DOMAIN d \cup {k} |-> IF x = k THEN v ELSE d[x]]
\* d.pop(k, None)
DictPop(d, k) == [x \in DOMAIN d \ {k} |-> d[x]]
\* d.get(k)
DictGet(d, k) == IF k \in DOMAIN d THEN d[k] ELSE PyNone
\* d.update(e) for a dict e: the keys of e overwrite, the others stay
DictMerge(d, e) == [x \in DOMAIN d \cup DOMAIN e |-> IF x \in DOMAIN e THEN e[x] ELSE d[x]]

(* ------------------------------------------------------------- the store *)
VARIABLES
    short_term,      \* key -> {"value", "timestamp", "metadata"}
    long_term,       \* category -> list | dict | whatever 'set' stored
    shared_data,     \* agent id -> {"data", "timestamp", "priority", "accessed_count"}
    init_timestamp,  \* _init_timestamp
    now,             \* what datetime.now() returns
    call,            \* the last call on the store: its name, arguments, result
    before,          \* history: the three namespaces as that call found them
    last_stored,     \* history: key -> value of its latest store_short_term
                     \*          since the last clear_short_term
    reads            \* history: agent id -> number of get_shared_data calls for
                     \*          it since its latest share_data

(* ------------------------------------------------------------ two stores *)
\* Two ResearchMemory instances, "A" and "B", with the identity of their dict
\* objects: export_memory hands out the objects themselves and import_memory
\* binds the attributes to the objects it is given.
VARIABLES
    objects,         \* object id -> content of that dict object
    memory,          \* store -> attribute (short_term, ...) -> object id
    mem_call         \* the last call on one of the two stores; an import_memory
                     \* also records objects and memory as it found them

two_stores == <<objects, memory, mem_call>>

\* the single store above, with its history
one_store == <<short_term, long_term, shared_data, init_timestamp, now,
               call, before, last_stored, reads>>

(* -------------------------------------------------------- the orchestrator *)
\* One ResearchCrew.  Its memory (self.memory) is the single store above.
VARIABLES
    crew,            \* self.crew: None, or the Crew the last run built
    run              \* the last execute_research call: its inputs, what it
                     \* executed and what the caller got

crew_vars == <<crew, run>>

(* ----------------------------------------------------------------- the API *)
\* main.py.  Its module-level research_crew is the ResearchCrew above.
VARIABLES
    recent_research, \* the records of the requests
    instances,       \* how many ResearchMemory instances have been created;
                     \* the module-level crew's is number 1
    served,          \* history: for each request that ran, the number of the
                     \* ResearchMemory instance it ran against
    request,         \* the last POST /research/sync: its status and what it found
    arrived          \* history: the requests that passed the check of the
                     \* query, in arrival order, with how their run ended

api_vars == <<recent_research, instances, served, request, arrived>>

(* ------------------------------------------------ analysis and synthesis *)
\* The analyst's and the synthesizer's functions of their arguments.
VARIABLES
    findings,        \* the findings given to the analyst
    patterns,        \* what _identify_patterns returned for them, None before
    contradictions,  \* what _find_contradictions returned for them, None before
    analysis_input,  \* the sources, findings and patterns given to
                     \* _calculate_confidence and _generate_insights
    confidence_levels, \* what _calculate_confidence returned for them, None before
    insights_generated, \* what _generate_insights returned for them, None before
    synthesis_input, \* query, gathered_info and analysis_results given to the
                     \* synthesizer
    summary,         \* what _create_executive_summary returned for them, None
                     \* before
    organized,       \* what _organize_findings returned for them, None before
    set_order,       \* the order in which this process iterates over a set of
                     \* source types (it follows the hashes of the strings)
    reports          \* history: the synthesize_report calls, with what each
                     \* was given and what it returned

analyst_vars == <<findings, patterns, contradictions, analysis_input, confidence_levels,
                 insights_generated>>
synthesizer_vars == <<synthesis_input, summary, organized, set_order, reports>>

(* ------------------------------------------------------ the tools manager *)
\* tools_manager.py: the module-level singleton.
VARIABLES
    tools_manager,   \* _tools_manager: None, or the identity of a ToolsManager
    managers,        \* the ToolsManager instances created so far, in order:
                     \* the config each was created with
    manager_calls    \* history: the get_tools_manager and reset_tools_manager
                     \* calls, with what each returned

tools_vars == <<tools_manager, managers, manager_calls>>

\* everything outside the single store
others == <<two_stores, crew_vars, api_vars, analyst_vars, synthesizer_vars, tools_vars>>

\* everything outside the two stores
outside_two_stores == <<one_store, crew_vars, api_vars, analyst_vars, synthesizer_vars, tools_vars>>

\* everything outside the orchestrator and its memory
outside_crew == <<two_stores, api_vars, analyst_vars, synthesizer_vars, tools_vars>>

\* everything outside the API, its crew and the crew's memory
outside_api == <<two_stores, analyst_vars, synthesizer_vars, tools_vars>>

\* everything outside the analyst's functions
outside_analyst == <<one_store, two_stores, crew_vars, api_vars, synthesizer_vars, tools_vars>>

\* everything outside the synthesizer's functions
outside_synthesizer == <<one_store, two_stores, crew_vars, api_vars, analyst_vars, tools_vars>>

\* everything outside the tools manager
outside_tools == <<one_store, two_stores, crew_vars, api_vars, analyst_vars,
                   synthesizer_vars>>

\* everything outside the synthesizer and the memory it writes to
outside_synthesizer_and_store == <<two_stores, crew_vars, api_vars, analyst_vars, tools_vars>>

vars == <<one_store, others>>

\* the three namespaces, as export_memory lists them
Store == [short_term |-> short_term, long_term |-> long_term, shared_data |-> shared_data]

\* the categories __init__ creates, and their initial values
InitialLongTerm ==
    [c \in {"reliable_sources", "search_patterns", "topic_knowledge", "quality_scores"} |->
        IF c \in {"reliable_sources", "search_patterns"}
        THEN PyList(<<>>) ELSE PyDict(EmptyDict)]

InitOneStore ==
    /\ short_term = EmptyDict
    /\ long_term = InitialLongTerm
    /\ shared_data = EmptyDict
    /\ now = 0
    /\ init_timestamp = 0
    /\ call = [op |-> "__init__", exc |-> "none", ret |-> PyNone]
    /\ before = [short_term |-> EmptyDict, long_term |-> InitialLongTerm,
                 shared_data |-> EmptyDict]
    /\ last_stored = EmptyDict
    /\ reads = EmptyDict

\* time passes between calls
Tick ==
    /\ now < MaxClock
    /\ now' = now + 1
    /\ UNCHANGED <<others, short_term, long_term, shared_data, init_timestamp,
                   call, before, last_stored, reads>>

(* ------------------------------------------------------------ short term *)
\* a store that keeps the entry a key already has (setdefault)
StoreShortTerm_KeepsFirst(st, key, value, metadata, timestamp) ==
    IF key \in DOMAIN st THEN st
    ELSE DictSet(st, key,
                 [value |-> value,
                  timestamp |-> timestamp,
                  metadata |-> IF Truthy(metadata) THEN metadata ELSE PyDict(EmptyDict)])

\* lines 54-58: short_term after self.short_term[key] = {...}
StoreShortTerm(st, key, value, metadata, timestamp) ==
    DictSet(st, key,
            [value |-> value,
             timestamp |-> timestamp,
             metadata |-> IF Truthy(metadata) THEN metadata ELSE PyDict(EmptyDict)])

store_short_term(key, value, metadata) ==
    /\ short_term' = StoreShortTerm(short_term, key, value, metadata, now)
    /\ call' = [op |-> "store_short_term", key |-> key, value |-> value,
                metadata |-> metadata, exc |-> "none", ret |-> PyNone]
    /\ before' = Store
    /\ last_stored' = DictSet(last_stored, key, value)
    /\ UNCHANGED <<others, long_term, shared_data, init_timestamp, now, reads>>

\* lines 71-73: what get_short_term returns
GetShortTerm(st, key) ==
    IF key \in DOMAIN st THEN st[key].value ELSE PyNone

get_short_term(key) ==
    /\ call' = [op |-> "get_short_term", key |-> key, exc |-> "none",
                ret |-> GetShortTerm(short_term, key)]
    /\ before' = Store
    /\ UNCHANGED <<others, short_term, long_term, shared_data, init_timestamp, now,
                   last_stored, reads>>

clear_short_term ==
    /\ short_term' = EmptyDict
    /\ call' = [op |-> "clear_short_term", exc |-> "none", ret |-> PyNone]
    /\ before' = Store
    /\ last_stored' = EmptyDict
    /\ UNCHANGED <<others, long_term, shared_data, init_timestamp, now, reads>>

(* ------------------------------------------------------------- long term *)
\* the exception dict.update(data) raises, "none" if it returns.  A dict merges;
\* None is not iterable; a non-empty str or list is iterated as a sequence of
\* key/value pairs, and the elements met here (the characters of a str) are
\* not pairs.
DictUpdateExc(data) ==
    CASE data.t = "dict" -> "none"
      [] data.t = "None" -> "TypeError"
      [] data.t = "str"  -> IF data.s = "" THEN "none" ELSE "ValueError"
      [] data.t = "list" -> IF data.items = <<>> THEN "none" ELSE "ValueError"

\* lines 84-86: an unknown category is created before the operation is looked at
AutoCreate(lt, category, operation) ==
    IF category \notin DOMAIN lt
    THEN DictSet(lt, category,
                 IF operation = "append" THEN PyList(<<>>) ELSE PyDict(EmptyDict))
    ELSE lt

\* the branches chosen by the operation alone, without the isinstance checks:
\* a list has no update and a dict no append, so the call dies of AttributeError
StoreLongTerm_Untyped(lt, category, data, operation) ==
    LET lt1 == AutoCreate(lt, category, operation)
        cur == lt1[category]
    IN  IF operation = "append"
        THEN IF IsList(cur)
             THEN [exc |-> "none",
                   long_term |-> DictSet(lt1, category, PyList(Append(cur.items, data)))]
             ELSE [exc |-> "AttributeError", long_term |-> lt1]
        ELSE IF operation = "update"
        THEN IF IsDict(cur) /\ IsDict(data)
             THEN [exc |-> "none",
                   long_term |-> DictSet(lt1, category, PyDict(DictMerge(cur.d, data.d)))]
             ELSE [exc |-> "AttributeError", long_term |-> lt1]
        ELSE IF operation = "set"
        THEN [exc |-> "none", long_term |-> DictSet(lt1, category, data)]
        ELSE [exc |-> "ValueError", long_term |-> lt1]

\* the code with one branch replaced: `branch` names the operation, `value`
\* gives what the category holds afterwards
StoreLongTerm_With(lt, category, data, operation, branch, value(_, _)) ==
    LET lt1 == AutoCreate(lt, category, operation)
        cur == lt1[category]
    IN  IF operation = branch /\ (operation = "append" => IsList(cur))
                              /\ (operation = "update" => IsDict(cur))
        THEN [exc |-> "none", long_term |-> DictSet(lt1, category, value(cur, data))]
        ELSE IF operation = "append" /\ IsList(cur)
        THEN [exc |-> "none",
              long_term |-> DictSet(lt1, category, PyList(Append(cur.items, data)))]
        ELSE IF operation = "update" /\ IsDict(cur)
        THEN [exc |-> DictUpdateExc(data),
              long_term |-> IF IsDict(data)
                            THEN DictSet(lt1, category, PyDict(DictMerge(cur.d, data.d)))
                            ELSE lt1]
        ELSE IF operation = "set"
        THEN [exc |-> "none", long_term |-> DictSet(lt1, category, data)]
        ELSE [exc |-> "ValueError", long_term |-> lt1]

\* append written as an assignment: self.long_term[category] = data
StoreLongTerm_AppendAssigns(lt, category, data, operation) ==
    LET value(cur, d) == d
    IN  StoreLongTerm_With(lt, category, data, operation, "append", value)

\* append written as insert(0, data)
StoreLongTerm_Prepends(lt, category, data, operation) ==
    LET value(cur, d) == PyList(<<d>> \o cur.items)
    IN  StoreLongTerm_With(lt, category, data, operation, "append", value)

\* update written as an assignment: self.long_term[category] = data
StoreLongTerm_UpdateReplaces(lt, category, data, operation) ==
    LET value(cur, d) == d
    IN  StoreLongTerm_With(lt, category, data, operation, "update", value)

\* set that merges a dict into the dict the category holds
StoreLongTerm_SetMerges(lt, category, data, operation) ==
    LET value(cur, d) == IF IsDict(cur) /\ IsDict(d)
                         THEN PyDict(DictMerge(cur.d, d.d)) ELSE d
    IN  StoreLongTerm_With(lt, category, data, operation, "set", value)

\* lines 84-96: the long_term dict the call leaves and the exception it raises
StoreLongTerm(lt, category, data, operation) ==
    LET lt1 == AutoCreate(lt, category, operation)
        cur == lt1[category]
    IN  IF operation = "append" /\ IsList(cur)
        THEN [exc |-> "none",
              long_term |-> DictSet(lt1, category, PyList(Append(cur.items, data)))]
        ELSE IF operation = "update" /\ IsDict(cur)
        THEN [exc |-> DictUpdateExc(data),
              long_term |-> IF IsDict(data)
                            THEN DictSet(lt1, category, PyDict(DictMerge(cur.d, data.d)))
                            ELSE lt1]
        ELSE IF operation = "set"
        THEN [exc |-> "none", long_term |-> DictSet(lt1, category, data)]
        ELSE [exc |-> "ValueError", long_term |-> lt1]

store_long_term(category, data, operation) ==
    LET r == StoreLongTerm(long_term, category, data, operation)
    IN  /\ \A c \in DOMAIN r.long_term :
               IsList(r.long_term[c]) => Len(r.long_term[c].items) <= MaxLen
        /\ long_term' = r.long_term
        /\ call' = [op |-> "store_long_term", category |-> category, data |-> data,
                    operation |-> operation, exc |-> r.exc, ret |-> PyNone]
        /\ before' = Store
        /\ UNCHANGED <<others, short_term, shared_data, init_timestamp, now,
                       last_stored, reads>>

get_long_term(category) ==
    /\ call' = [op |-> "get_long_term", category |-> category, exc |-> "none",
                ret |-> DictGet(long_term, category)]
    /\ before' = Store
    /\ UNCHANGED <<others, short_term, long_term, shared_data, init_timestamp, now,
                   last_stored, reads>>

(* ----------------------------------------------------------- shared data *)
\* a re-share that refreshes data, timestamp and priority of the entry the agent
\* already has and leaves its accessed_count
ShareData_KeepsCount(sd, agent_id, data, priority, timestamp) ==
    DictSet(sd, agent_id,
            [data |-> data,
             timestamp |-> timestamp,
             priority |-> priority,
             accessed_count |-> IF agent_id \in DOMAIN sd
                                THEN sd[agent_id].accessed_count ELSE 0])

\* lines 121-126: shared_data after self.shared_data[agent_id] = {...}
ShareData(sd, agent_id, data, priority, timestamp) ==
    DictSet(sd, agent_id,
            [data |-> data,
             timestamp |-> timestamp,
             priority |-> priority,
             accessed_count |-> 0])

\* agent_id is the str itself, data and priority are Python values
share_data(agent_id, data, priority) ==
    /\ shared_data' = ShareData(shared_data, agent_id, data, priority, now)
    /\ call' = [op |-> "share_data", agent_id |-> agent_id, data |-> data,
                priority |-> priority, exc |-> "none", ret |-> PyNone]
    /\ before' = Store
    /\ reads' = DictSet(reads, agent_id, 0)
    /\ UNCHANGED <<others, short_term, long_term, init_timestamp, now, last_stored>>

\* a hit that marks the entry as accessed: accessed_count = 1 for += 1
GetSharedData_SetsOne(sd, agent_id) ==
    IF agent_id \in DOMAIN sd
    THEN [shared_data |-> [sd EXCEPT ![agent_id].accessed_count = 1],
          ret |-> sd[agent_id].data]
    ELSE [shared_data |-> sd, ret |-> PyNone]

\* lines 139-142: shared_data after the call, and what it returns
GetSharedData(sd, agent_id) ==
    IF agent_id \in DOMAIN sd
    THEN [shared_data |-> [sd EXCEPT ![agent_id].accessed_count = @ + 1],
          ret |-> sd[agent_id].data]
    ELSE [shared_data |-> sd, ret |-> PyNone]

get_shared_data(agent_id) ==
    LET r == GetSharedData(shared_data, agent_id)
    IN  /\ \A a \in DOMAIN r.shared_data : r.shared_data[a].accessed_count <= MaxCount
        /\ shared_data' = r.shared_data
        /\ call' = [op |-> "get_shared_data", agent_id |-> agent_id, exc |-> "none",
                    ret |-> r.ret]
        /\ before' = Store
        /\ reads' = IF agent_id \in DOMAIN reads
                    THEN [reads EXCEPT ![agent_id] = @ + 1] ELSE reads
        /\ UNCHANGED <<others, short_term, long_term, init_timestamp, now, last_stored>>

\* the filter compared the wrong way round: != for ==
AllSharedData_FilterInverted(sd, priority) ==
    IF Truthy(priority)
    THEN [a \in {x \in DOMAIN sd : sd[x].priority # priority} |-> sd[a].data]
    ELSE [a \in DOMAIN sd |-> sd[a].data]

\* lines 154-160: the dict the comprehension builds
AllSharedData(sd, priority) ==
    IF Truthy(priority)
    THEN [a \in {x \in DOMAIN sd : sd[x].priority = priority} |-> sd[a].data]
    ELSE [a \in DOMAIN sd |-> sd[a].data]

get_all_shared_data(priority) ==
    /\ call' = [op |-> "get_all_shared_data", priority |-> priority, exc |-> "none",
                ret |-> PyDict(AllSharedData(shared_data, priority))]
    /\ before' = Store
    /\ UNCHANGED <<others, short_term, long_term, shared_data, init_timestamp, now,
                   last_stored, reads>>

\* lines 174-179: agent_id is a PyStr or PyNone; `if agent_id:` is its truth value
ClearSharedData(sd, agent_id) ==
    IF Truthy(agent_id) THEN DictPop(sd, agent_id.s) ELSE EmptyDict

\* reads forgets the agents whose entry is gone
clear_shared_data(agent_id) ==
    /\ shared_data' = ClearSharedData(shared_data, agent_id)
    /\ call' = [op |-> "clear_shared_data", agent_id |-> agent_id, exc |-> "none",
                ret |-> PyNone]
    /\ before' = Store
    /\ reads' = [a \in DOMAIN reads \cap DOMAIN shared_data' |-> reads[a]]
    /\ UNCHANGED <<others, short_term, long_term, init_timestamp, now, last_stored>>

(* ------------------------------------------------------ stats and export *)
\* the key lists of memory_breakdown are kept as the sets of their elements
get_memory_stats ==
    /\ call' = [op |-> "get_memory_stats", exc |-> "none",
                ret |-> [short_term_items |-> Cardinality(DOMAIN short_term),
                         long_term_categories |-> Cardinality(DOMAIN long_term),
                         shared_data_agents |-> Cardinality(DOMAIN shared_data),
                         uptime_seconds |-> now - init_timestamp,
                         memory_breakdown |->
                             [short_term |-> DOMAIN short_term,
                              long_term |-> DOMAIN long_term,
                              shared_agents |-> DOMAIN shared_data]]]
    /\ before' = Store
    /\ UNCHANGED <<others, short_term, long_term, shared_data, init_timestamp, now,
                   last_stored, reads>>

export_memory ==
    /\ call' = [op |-> "export_memory", exc |-> "none",
                ret |-> [short_term |-> short_term,
                         long_term |-> long_term,
                         shared_data |-> shared_data,
                         export_timestamp |-> now]]
    /\ before' = Store
    /\ UNCHANGED <<others, short_term, long_term, shared_data, init_timestamp, now,
                   last_stored, reads>>

(* ------------------------------------------- export and import, two stores *)
StoreNames == {"A", "B"}
Sections == {"short_term", "long_term", "shared_data"}

\* __init__ of A and of B: each store gets three dict objects of its own
InitTwoStores ==
    /\ objects = [o \in 1..6 |-> IF o \in {2, 5} THEN InitialLongTerm ELSE EmptyDict]
    /\ memory = [s \in StoreNames |->
                    IF s = "A"
                    THEN [short_term |-> 1, long_term |-> 2, shared_data |-> 3]
                    ELSE [short_term |-> 4, long_term |-> 5, shared_data |-> 6]]
    /\ mem_call = [op |-> "__init__"]

\* self.<section> of store s
Attr(s, section) == objects[memory[s][section]]

\* lines 197-202: the dict export_memory returns holds the objects themselves
\* (export_timestamp is a key import_memory never reads)
ExportMemory(m) == [section \in Sections |-> m[section]]

\* an import that takes short_term and long_term and forgets shared_data
ImportMemory_SkipsShared(m, memory_data) ==
    [section \in Sections |->
        IF section \in DOMAIN memory_data \ {"shared_data"}
        THEN memory_data[section] ELSE m[section]]

\* an import that fills a section the snapshot lacks from the snapshot's
\* short_term: memory_data.get(section, memory_data.get("short_term", ...))
ImportMemory_FillsAbsent(m, memory_data) ==
    [section \in Sections |->
        IF section \in DOMAIN memory_data THEN memory_data[section]
        ELSE IF "short_term" \in DOMAIN memory_data THEN memory_data["short_term"]
        ELSE m[section]]

\* lines 206-211: the attributes of the store after import_memory(memory_data)
ImportMemory(m, memory_data) ==
    [section \in Sections |->
        IF section \in DOMAIN memory_data THEN memory_data[section] ELSE m[section]]

\* s.import_memory(memory_data), where memory_data holds the sections `kept` of
\* what t.export_memory() returned
import_memory(s, t, kept) ==
    LET memory_data == [section \in kept |-> ExportMemory(memory[t])[section]]
    IN  /\ memory' = [memory EXCEPT ![s] = ImportMemory(@, memory_data)]
        /\ mem_call' = [op |-> "import_memory", store |-> s, source |-> t,
                        memory_data |-> memory_data,
                        objects |-> objects, memory |-> memory]
        /\ UNCHANGED <<outside_two_stores, objects>>

\* the calls of the sections above on store s: each works on the object the
\* attribute is bound to (item assignment, .pop and .clear mutate it in place)
store_short_term_on(s, key, value) ==
    /\ objects' = [objects EXCEPT ![memory[s].short_term] =
                       StoreShortTerm(@, key, value, PyNone, now)]
    /\ mem_call' = [op |-> "store_short_term", store |-> s]
    /\ UNCHANGED <<outside_two_stores, memory>>

clear_short_term_on(s) ==
    /\ objects' = [objects EXCEPT ![memory[s].short_term] = EmptyDict]
    /\ mem_call' = [op |-> "clear_short_term", store |-> s]
    /\ UNCHANGED <<outside_two_stores, memory>>

store_long_term_on(s, category, data, operation) ==
    LET r == StoreLongTerm(Attr(s, "long_term"), category, data, operation)
    IN  /\ \A c \in DOMAIN r.long_term :
               IsList(r.long_term[c]) => Len(r.long_term[c].items) <= MaxLen
        /\ objects' = [objects EXCEPT ![memory[s].long_term] = r.long_term]
        /\ mem_call' = [op |-> "store_long_term", store |-> s]
        /\ UNCHANGED <<outside_two_stores, memory>>

share_data_on(s, agent_id, data, priority) ==
    /\ objects' = [objects EXCEPT ![memory[s].shared_data] =
                       ShareData(@, agent_id, data, priority, now)]
    /\ mem_call' = [op |-> "share_data", store |-> s]
    /\ UNCHANGED <<outside_two_stores, memory>>

get_shared_data_on(s, agent_id) ==
    LET r == GetSharedData(Attr(s, "shared_data"), agent_id)
    IN  /\ \A a \in DOMAIN r.shared_data : r.shared_data[a].accessed_count <= MaxCount
        /\ objects' = [objects EXCEPT ![memory[s].shared_data] = r.shared_data]
        /\ mem_call' = [op |-> "get_shared_data", store |-> s]
        /\ UNCHANGED <<outside_two_stores, memory>>

clear_shared_data_on(s, agent_id) ==
    /\ objects' = [objects EXCEPT ![memory[s].shared_data] = ClearSharedData(@, agent_id)]
    /\ mem_call' = [op |-> "clear_shared_data", store |-> s]
    /\ UNCHANGED <<outside_two_stores, memory>>

(* ------------------------------------------------------------------ text *)
\* A Python str is a TLA+ string; Len, Head, Tail, SubSeq and \o work on it.

Min(S) == CHOOSE x \in S : \A y \in S : x <= y

\* str.lower() on one character
LowerChar(c) ==
    CASE c = "A" -> "a" [] c = "B" -> "b" [] c = "C" -> "c" [] c = "D" -> "d" []
         c = "E" -> "e" [] c = "F" -> "f" [] c = "G" -> "g" [] c = "H" -> "h" []
         c = "I" -> "i" [] c = "J" -> "j" [] c = "K" -> "k" [] c = "L" -> "l" []
         c = "M" -> "m" [] c = "N" -> "n" [] c = "O" -> "o" [] c = "P" -> "p" []
         c = "Q" -> "q" [] c = "R" -> "r" [] c = "S" -> "s" [] c = "T" -> "t" []
         c = "U" -> "u" [] c = "V" -> "v" [] c = "W" -> "w" [] c = "X" -> "x" []
         c = "Y" -> "y" [] c = "Z" -> "z"
      [] OTHER -> c

\* str.lower()
RECURSIVE Lower(_)
Lower(s) == IF s = "" THEN "" ELSE LowerChar(Head(s)) \o Lower(Tail(s))

\* s[i-1:].startswith(sub), i counted from 1
StartsAt(s, sub, i) ==
    /\ i >= 1
    /\ i + Len(sub) - 1 <= Len(s)
    /\ SubSeq(s, i, i + Len(sub) - 1) = sub

\* the same under re.IGNORECASE, sub in lower case
StartsAtI(s, sub, i) ==
    /\ i >= 1
    /\ i + Len(sub) - 1 <= Len(s)
    /\ Lower(SubSeq(s, i, i + Len(sub) - 1)) = sub

\* sub in s
Contains(s, sub) == \E i \in 1..(Len(s) - Len(sub) + 1) : StartsAt(s, sub, i)

Whitespace == {" ", "\n", "\t", "\r"}

RECURSIVE LStrip(_)
LStrip(s) == IF s # "" /\ Head(s) \in Whitespace THEN LStrip(Tail(s)) ELSE s

RECURSIVE RStrip(_)
RStrip(s) ==
    IF s # "" /\ SubSeq(s, Len(s), Len(s)) \in Whitespace
    THEN RStrip(SubSeq(s, 1, Len(s) - 1)) ELSE s

\* str.strip()
Strip(s) == RStrip(LStrip(s))

\* re.sub(r'\n+', '\n', s)
RECURSIVE SqueezeNewlines(_)
SqueezeNewlines(s) ==
    IF Len(s) < 2 THEN s
    ELSE IF Head(s) = "\n" /\ Head(Tail(s)) = "\n" THEN SqueezeNewlines(Tail(s))
    ELSE Head(s) \o SqueezeNewlines(Tail(s))

(* ----------------------------------------------- parsing the crew's output *)
\* lines 292-301: the section patterns.  Each is a header, in one of the forms
\* `heads` (lower case, matched under re.IGNORECASE); `rest` says that `.*?\n`
\* follows the header, otherwise `\n` does.  Then come (.*?)(?=\n## |\n# |\Z).
SectionPatterns ==
    << [name |-> "executive_summary", heads |-> {"## executive summary"}, rest |-> FALSE],
       [name |-> "introduction", heads |-> {"## introduction"}, rest |-> TRUE],
       [name |-> "methodology", heads |-> {"## methodology"}, rest |-> FALSE],
       [name |-> "findings", heads |-> {"## key findings", "## findings"}, rest |-> FALSE],
       [name |-> "analysis", heads |-> {"## analysis"}, rest |-> TRUE],
       [name |-> "conclusions", heads |-> {"## conclusions", "## conclusion"}, rest |-> FALSE],
       [name |-> "recommendations",
        heads |-> {"## actionable recommendations", "## recommendations"}, rest |-> FALSE],
       [name |-> "references", heads |-> {"## references"}, rest |-> FALSE] >>

\* line 315: the length an unstructured output is cut to
SummaryLimit == 1000

\* where a header can start
Marks(s) == {i \in 1..Len(s) : StartsAt(s, "## ", i)}

\* the index of the first "\n" at or after i, 0 if there is none
NextNewline(s, i) ==
    LET at == {j \in i..Len(s) : SubSeq(s, j, j) = "\n"}
    IN  IF at = {} THEN 0 ELSE Min(at)

\* the index after the header of pattern p that starts at i, 0 if none does
HeaderEnd(s, p, i) ==
    LET hs == {h \in p.heads : StartsAtI(s, h, i)}
    IN  IF p.rest
        THEN IF hs = {} THEN 0
             ELSE LET h == CHOOSE x \in hs : TRUE
                      n == NextNewline(s, i + Len(h))
                  IN  IF n = 0 THEN 0 ELSE n + 1
        ELSE LET closed == {h \in hs : StartsAt(s, "\n", i + Len(h))}
             IN  IF closed = {} THEN 0
                 ELSE i + Len(CHOOSE x \in closed : TRUE) + 1

\* (.*?)(?=\n## |\n# |\Z) from index `from`: the index where the content ends
ContentEnd(s, from) ==
    LET stops == {j \in from..Len(s) : StartsAt(s, "\n## ", j) \/ StartsAt(s, "\n# ", j)}
    IN  IF stops = {} THEN Len(s) + 1 ELSE Min(stops)

\* lines 303-309: what re.search finds for pattern p, stripped and cleaned up;
\* "" if the pattern does not match.  marks is Marks(s).
SectionContent(s, marks, p) ==
    LET starts == {i \in marks : HeaderEnd(s, p, i) # 0}
    IN  IF starts = {} THEN ""
        ELSE LET from == HeaderEnd(s, p, Min(starts))
                 content == SubSeq(s, from, ContentEnd(s, from) - 1)
             IN  Strip(SqueezeNewlines(Strip(content)))

\* lines 288-316: _parse_crew_result
ParseCrewResult(result_text) ==
    LET marks == Marks(result_text)
        content == [k \in 1..Len(SectionPatterns) |->
                       SectionContent(result_text, marks, SectionPatterns[k])]
        found == {k \in 1..Len(SectionPatterns) : content[k] # ""}
        report == [name \in {SectionPatterns[k].name : k \in found} |->
                      LET k == CHOOSE k \in found : SectionPatterns[k].name = name
                      IN  PyStr(content[k])]
    IN  IF found = {} /\ result_text # ""
        THEN [executive_summary |->
                  PyStr(IF Len(result_text) > SummaryLimit
                        THEN SubSeq(result_text, 1, SummaryLimit) \o "..."
                        ELSE result_text),
              full_content |-> PyStr(result_text)]
        ELSE report

\* what kickoff can return
TextSections ==
    "# AI\n\n## Executive Summary\nAI is growing.\n\n\nFast.\n\n## Key Findings\nOne.\n## References\n"
TextPlain == "AI is growing fast."
TextEmptySection == "## executive summary\n   \n"
X10 == "xxxxxxxxxx"
X100 == X10 \o X10 \o X10 \o X10 \o X10 \o X10 \o X10 \o X10 \o X10 \o X10
TextLong ==
    X100 \o X100 \o X100 \o X100 \o X100 \o X100 \o X100 \o X100 \o X100 \o X100 \o "x"
Texts == {TextSections, TextPlain, TextEmptySection, TextLong, ""}

\* _parse_crew_result of each of these texts, computed once
ParseTable == [result_text \in Texts |-> ParseCrewResult(result_text)]

(* -------------------------------------------------------- the orchestrator *)
InitCrew ==
    /\ crew = PyNone
    /\ run = [called |-> FALSE]

\* a task list whose synthesis task is given the analysis only
CreateResearchTasks_SynthesisFromAnalysis(query) ==
    << [name |-> "planning_task", agent |-> "coordinator", query |-> query,
        context |-> <<>>],
       [name |-> "gathering_task", agent |-> "gatherer", query |-> query,
        context |-> <<"planning_task">>],
       [name |-> "analysis_task", agent |-> "analyst", query |-> query,
        context |-> <<"gathering_task">>],
       [name |-> "synthesis_task", agent |-> "synthesizer", query |-> query,
        context |-> <<"analysis_task">>] >>

\* lines 82-171: the tasks create_research_tasks returns; context names the
\* tasks a task is given as its context
CreateResearchTasks(query) ==
    << [name |-> "planning_task", agent |-> "coordinator", query |-> query,
        context |-> <<>>],
       [name |-> "gathering_task", agent |-> "gatherer", query |-> query,
        context |-> <<"planning_task">>],
       [name |-> "analysis_task", agent |-> "analyst", query |-> query,
        context |-> <<"gathering_task">>],
       [name |-> "synthesis_task", agent |-> "synthesizer", query |-> query,
        context |-> <<"planning_task", "gathering_task", "analysis_task">>] >>

\* lines 195-213: the Crew the run builds
NewCrew(tasks) ==
    [agents |-> <<"coordinator", "gatherer", "analyst", "synthesizer">>,
     tasks |-> tasks,
     process |-> "sequential"]

\* Process.sequential: kickoff runs the tasks in list order, one after the
\* other; `done` of them have completed when it returns or raises
Kickoff(c, done) == [i \in 1..done |-> c.tasks[i].name]

\* lines 338-342: a value of the shared data that looks like a source
IsSource(v) == IsDict(v) /\ ({"url", "title"} \cap DOMAIN v.d) # {}

\* lines 337-342: the sources among the values of get_all_shared_data() (the
\* order of the agents is the dict's; it is taken as some order here)
RECURSIVE SourcesOf(_, _)
SourcesOf(all, agents) ==
    IF agents = {} THEN <<>>
    ELSE LET a == CHOOSE x \in agents : TRUE
             v == all[a]
         IN  (IF IsSource(v) THEN <<v>>
              ELSE IF IsList(v) THEN SelectSeq(v.items, IsSource)
              ELSE <<>>) \o SourcesOf(all, agents \ {a})

\* lines 358-381, title and url of each
DefaultSources ==
    << PyDict([title |-> PyStr("AI Research Analysis"),
               url |-> PyStr("internal://research-analysis")]),
       PyDict([title |-> PyStr("Web Research Compilation"),
               url |-> PyStr("internal://web-research")]) >>

\* lines 387-400, title and url
NormalizeSource(source) ==
    PyDict([title |-> IF "title" \in DOMAIN source.d
                      THEN source.d["title"] ELSE PyStr("Untitled Source"),
            url |-> IF "url" \in DOMAIN source.d THEN source.d["url"] ELSE PyStr("")])

\* lines 327-355: _extract_sources
ExtractSources(sd) ==
    LET all == AllSharedData(sd, PyNone)
        found == SourcesOf(all, DOMAIN all)
        sources == IF found = <<>> THEN DefaultSources ELSE found
    IN  [i \in 1..Len(sources) |-> NormalizeSource(sources[i])]

\* lines 226-229: the report of a successful run
FinalReport(st, parsed_report) ==
    LET final_report == GetShortTerm(st, "completed_report")
    IN  IF Truthy(final_report) THEN final_report ELSE parsed_report

\* lines 232-250: the response of a successful run (execution_time, the dates,
\* the derived scores and memory_stats are left out)
SuccessResponse(query, final_report, sources, tasks) ==
    PyDict([success |-> TRUE,
            query |-> PyStr(query),
            report |-> final_report,
            sources |-> PyList(sources),
            metadata |-> [total_sources |-> Len(sources),
                          agents_used |-> 4,
                          tasks_completed |-> Len(tasks)]])

\* a handler that hands the error back as the report
FailureResponse_ReportsError(query, error) ==
    PyDict([success |-> FALSE,
            query |-> PyStr(query),
            error |-> PyStr(error),
            report |-> PyDict([executive_summary |-> PyStr(error)]),
            sources |-> PyList(<<>>),
            metadata |-> [total_sources |-> 0, avg_credibility |-> 0, confidence |-> 0]])

\* lines 262-276: the response of the except branch (execution_time and the
\* date are left out)
FailureResponse(query, error) ==
    PyDict([success |-> FALSE,
            query |-> PyStr(query),
            error |-> PyStr(error),
            report |-> PyDict(EmptyDict),
            sources |-> PyList(<<>>),
            metadata |-> [total_sources |-> 0, avg_credibility |-> 0, confidence |-> 0]])

\* lines 186-276: execute_research on a crew whose memory holds st and sd.
\* outcome says how the run goes:
\*   fail   - the step that raises: "create_research_tasks", "Crew", "kickoff",
\*            "results" (anything after kickoff), or "none"
\*   error  - str(e) of what is raised
\*   done   - how many tasks kickoff completed
\*   text   - str(result) of what kickoff returned
\*   report - what an agent stored as 'completed_report' while the synthesis
\*            task ran, None if nothing
ExecuteResearch(st, sd, c, query, outcome, timestamp) ==
    LET st1 == StoreShortTerm(
                   StoreShortTerm(st, "research_query", PyStr(query), PyNone, timestamp),
                   "start_time", [t |-> "datetime", at |-> timestamp], PyNone, timestamp)
        tasks == CreateResearchTasks(query)
        built == outcome.fail \notin {"create_research_tasks", "Crew"}
        kicked == built
        c1 == IF built THEN NewCrew(tasks) ELSE c
        executed == IF kicked THEN Kickoff(c1, outcome.done) ELSE <<>>
        st2 == IF kicked /\ outcome.done = Len(tasks) /\ outcome.report # PyNone
               THEN StoreShortTerm(st1, "completed_report", outcome.report, PyNone, timestamp)
               ELSE st1
        parsed_report == PyDict(ParseTable[outcome.text])
        sources == ExtractSources(sd)
        response == SuccessResponse(query, FinalReport(st2, parsed_report), sources, tasks)
    IN  IF outcome.fail = "none"
        THEN [short_term |-> StoreShortTerm(st2, "research_results", response,
                                            PyNone, timestamp),
              crew |-> c1, kickoffs |-> 1, executed |-> executed,
              tasks |-> tasks, parsed_report |-> parsed_report,
              completed_report |-> GetShortTerm(st2, "completed_report"),
              raised |-> FALSE, response |-> response]
        ELSE [short_term |-> st2,
              crew |-> c1, kickoffs |-> IF kicked THEN 1 ELSE 0, executed |-> executed,
              tasks |-> IF outcome.fail = "create_research_tasks" THEN <<>> ELSE tasks,
              parsed_report |-> PyNone, completed_report |-> PyNone,
              raised |-> FALSE, response |-> FailureResponse(query, outcome.error)]

\* what run keeps of a call and its result r
RunRecord(query, outcome, r) ==
    [called |-> TRUE, query |-> query, outcome |-> outcome,
     tasks |-> r.tasks,
     kickoffs |-> r.kickoffs, executed |-> r.executed,
     parsed_report |-> r.parsed_report,
     completed_report |-> r.completed_report,
     raised |-> r.raised, returned |-> r.response]

\* the history of the direct calls on the store (call, before, last_stored,
\* reads) is not continued
execute_research(query, outcome) ==
    LET r == ExecuteResearch(short_term, shared_data, crew, query, outcome, now)
    IN  /\ short_term' = r.short_term
        /\ crew' = r.crew
        /\ run' = RunRecord(query, outcome, r)
        /\ UNCHANGED <<long_term, shared_data, init_timestamp, now,
                       call, before, last_stored, reads, outside_crew>>

\* lines 442-446: clear_memory is clear_short_term, then clear_shared_data()
clear_memory ==
    /\ short_term' = EmptyDict
    /\ shared_data' = ClearSharedData(shared_data, PyNone)
    /\ UNCHANGED <<long_term, init_timestamp, now, call, before, last_stored, reads,
                   crew, run, outside_crew>>

\* lines 448-461: what get_research_history returns for a crew whose memory
\* holds st
GetResearchHistory(st) ==
    IF Truthy(GetShortTerm(st, "research_query"))
    THEN PyList(<< PyDict([query |-> GetShortTerm(st, "research_query"),
                           timestamp |-> GetShortTerm(st, "start_time"),
                           status |-> IF Truthy(GetShortTerm(st, "research_results"))
                                      THEN PyStr("completed")
                                      ELSE PyStr("in_progress")]) >>)
    ELSE PyList(<<>>)

\* the agents hold the crew's memory (lines 48-66) and write to it whenever
\* they are called: synthesizer.py line 150 stores the report it assembled
agent_stores_report(report) ==
    /\ short_term' = StoreShortTerm(short_term, "completed_report", report, PyNone, now)
    /\ UNCHANGED <<long_term, shared_data, init_timestamp, now,
                   call, before, last_stored, reads, crew, run, outside_crew>>

\* gatherer.py lines 129-136, 345-352: an agent shares its status or a source
agent_shares(agent_id, data) ==
    /\ shared_data' = ShareData(shared_data, agent_id, data, PyStr("normal"), now)
    /\ UNCHANGED <<short_term, long_term, init_timestamp, now,
                   call, before, last_stored, reads, crew, run, outside_crew>>

(* ----------------------------------------------------------------- the API *)
\* main.py line 60: research_crew = ResearchCrew(); line 63: recent_research = []
InitApi ==
    /\ recent_research = <<>>
    /\ instances = 1
    /\ served = <<>>
    /\ arrived = <<>>
    /\ request = [ran |-> FALSE, status |-> 0]

\* main.py line 139: the number of records kept
RecentLimit == 10

\* main.py lines 130-139 and 154-162: recent_research after a request whose
\* run returned result (a failed run raises the HTTPException inside the try,
\* so its record is appended by the except branch)
RecordRequest(records, query, result) ==
    IF result.success
    THEN LET added == Append(records, [query |-> query, success |-> TRUE])
         IN  IF Len(added) > RecentLimit THEN Tail(added) ELSE added
    ELSE Append(records, [query |-> query, success |-> FALSE,
                          error |-> "Research failed: " \o result.error.s])

\* main.py lines 118-162: what the request does once execute_research has
\* returned r; own says that the run was on a ResearchCrew of the request's own
Respond(query, config, outcome, own, r) ==
    LET instance == IF own THEN instances + 1 ELSE 1
    IN  /\ short_term' = IF own THEN short_term ELSE r.short_term
        /\ crew' = IF own THEN crew ELSE r.crew
        /\ run' = IF own THEN run ELSE RunRecord(query, outcome, r)
        /\ instances' = IF own THEN instances + 1 ELSE instances
        /\ served' = Append(served, instance)
        /\ arrived' = Append(arrived, [query |-> query, success |-> r.response.d.success])
        /\ recent_research' = RecordRequest(recent_research, query, r.response.d)
        /\ request' = [ran |-> TRUE,
                       status |-> IF r.response.d.success THEN 200 ELSE 500,
                       config |-> config,
                       instance |-> instance,
                       found |-> IF own THEN EmptyDict ELSE short_term]
        /\ UNCHANGED <<long_term, shared_data, init_timestamp, now,
                       call, before, last_stored, reads, outside_api>>

\* main.py lines 92-170: POST /research/sync.  config is request.config, None
\* if the request has none; with a config the run is on ResearchCrew(config),
\* whose memory is new, otherwise on research_crew.
research_sync(query, config, outcome) ==
    IF Strip(query) = ""
    THEN /\ request' = [ran |-> FALSE, status |-> 400]
         /\ UNCHANGED <<one_store, crew_vars, recent_research, instances, served,
                        arrived, outside_api>>
    ELSE Respond(query, config, outcome, Truthy(config),
                 ExecuteResearch(IF Truthy(config) THEN EmptyDict ELSE short_term,
                                 IF Truthy(config) THEN EmptyDict ELSE shared_data,
                                 IF Truthy(config) THEN PyNone ELSE crew,
                                 query, outcome, now))

(* ------------------------------------------------------------- the analyst *)
InitAnalyst ==
    /\ findings = <<>>
    /\ patterns = PyNone
    /\ contradictions = PyNone
    /\ analysis_input = PyNone
    /\ confidence_levels = PyNone
    /\ insights_generated = PyNone

\* dict.get(key, default) on a dict value
Get(x, key, default) == IF key \in DOMAIN x.d THEN x.d[key] ELSE default

\* analyst.py lines 159, 260, 263: finding.get('finding', '').lower()
Content(finding) == Lower(Get(finding, "finding", PyStr("")).s)

\* analyst.py line 162
Keywords == <<"increase", "decrease", "growth", "decline", "improvement", "impact">>

\* analyst.py line 165: theme_counts[keyword] = theme_counts.get(keyword, 0) + 1,
\* the dict kept as the list of its items in insertion order
Bump(theme_counts, keyword) ==
    IF \E i \in 1..Len(theme_counts) : theme_counts[i].theme = keyword
    THEN [i \in 1..Len(theme_counts) |->
             IF theme_counts[i].theme = keyword
             THEN [theme |-> keyword, count |-> theme_counts[i].count + 1]
             ELSE theme_counts[i]]
    ELSE Append(theme_counts, [theme |-> keyword, count |-> 1])

\* analyst.py lines 163-165: the loop over the keywords, from the k-th on
RECURSIVE ScanKeywords(_, _, _)
ScanKeywords(theme_counts, content, k) ==
    IF k > Len(Keywords) THEN theme_counts
    ELSE ScanKeywords(IF Contains(content, Keywords[k])
                      THEN Bump(theme_counts, Keywords[k]) ELSE theme_counts,
                      content, k + 1)

\* analyst.py lines 158-165: the loop over the findings, from the i-th on
RECURSIVE ThemeCounts(_, _, _)
ThemeCounts(theme_counts, fs, i) ==
    IF i > Len(fs) THEN theme_counts
    ELSE ThemeCounts(ScanKeywords(theme_counts, Content(fs[i]), 1), fs, i + 1)

\* analyst.py lines 170-175
Pattern(item) ==
    [type |-> "trend",
     theme |-> item.theme,
     frequency |-> item.count,
     strength |-> IF item.count >= 3 THEN "strong" ELSE "moderate"]

\* a detector for which one occurrence makes a pattern
IdentifyPatterns_FromOne(fs) ==
    LET theme_counts == ThemeCounts(<<>>, fs, 1)
        IsPattern(item) == item.count >= 1
        kept == SelectSeq(theme_counts, IsPattern)
    IN  [i \in 1..Len(kept) |-> Pattern(kept[i])]

\* analyst.py lines 152-177: _identify_patterns
IdentifyPatterns(fs) ==
    LET theme_counts == ThemeCounts(<<>>, fs, 1)
        IsPattern(item) == item.count >= 2
        kept == SelectSeq(theme_counts, IsPattern)
    IN  [i \in 1..Len(kept) |-> Pattern(kept[i])]

identify_patterns ==
    /\ patterns' = PyList(IdentifyPatterns(findings))
    /\ UNCHANGED <<findings, contradictions, analysis_input, confidence_levels,
                   insights_generated,
                   outside_analyst>>

\* analyst.py lines 252-257
OpposingPairs ==
    << <<"increase", "decrease">>, <<"positive", "negative">>,
       <<"growth", "decline">>, <<"improvement", "deterioration">> >>

\* analyst.py lines 271-272: finding.get('source', {}).get('title', 'Unknown')
SourceTitle(finding) ==
    Get(Get(finding, "source", PyDict(EmptyDict)), "title", PyStr("Unknown")).s

\* a test that looks for term1 in the first and term2 in the second only
Opposed_OneWay(content1, content2, term1, term2) ==
    Contains(content1, term1) /\ Contains(content2, term2)

\* analyst.py lines 267-268: the test on a pair of contents
Opposed(content1, content2, term1, term2) ==
    \/ Contains(content1, term1) /\ Contains(content2, term2)
    \/ Contains(content1, term2) /\ Contains(content2, term1)

\* analyst.py lines 266-274: the loop over the opposing pairs, from the k-th on
RECURSIVE Conflicts(_, _, _)
Conflicts(finding1, finding2, k) ==
    IF k > Len(OpposingPairs) THEN <<>>
    ELSE (IF Opposed(Content(finding1), Content(finding2),
                     OpposingPairs[k][1], OpposingPairs[k][2])
          THEN << [type |-> "opposing_claims",
                   source1 |-> SourceTitle(finding1),
                   source2 |-> SourceTitle(finding2),
                   conflict |-> OpposingPairs[k][1] \o " vs " \o OpposingPairs[k][2]] >>
          ELSE <<>>)
         \o Conflicts(finding1, finding2, k + 1)

\* analyst.py line 262: the loop over findings[i+1:], from the j-th on
RECURSIVE WithLater(_, _, _)
WithLater(fs, i, j) ==
    IF j > Len(fs) THEN <<>>
    ELSE Conflicts(fs[i], fs[j], 1) \o WithLater(fs, i, j + 1)

\* analyst.py line 259: the loop over the findings, from the i-th on
RECURSIVE FromEach(_, _)
FromEach(fs, i) ==
    IF i > Len(fs) THEN <<>>
    ELSE WithLater(fs, i, i + 1) \o FromEach(fs, i + 1)

\* analyst.py lines 247-276: _find_contradictions
FindContradictions(fs) == FromEach(fs, 1)

find_contradictions ==
    /\ contradictions' = PyList(FindContradictions(findings))
    /\ UNCHANGED <<findings, patterns, analysis_input, confidence_levels,
                   insights_generated,
                   outside_analyst>>

\* the exact value num/den of a float
RECURSIVE GCD(_, _)
GCD(a, b) == IF b = 0 THEN a ELSE GCD(b, a % b)
Fraction(num, den) ==
    [num |-> num \div GCD(num, den), den |-> den \div GCD(num, den)]
Plus(x, y) == Fraction(x.num * y.den + y.num * x.den, x.den * y.den)
Over(x, n) == Fraction(x.num, x.den * n)
Same(x, y) == x.num * y.den = y.num * x.den
AtMost(x, y) == x.num * y.den <= y.num * x.den

\* analyst.py line 285: sum(s.get('reliability', 0.5) for s in sources), over
\* the sources from the i-th on; a reliability is a number of hundredths
RECURSIVE SumReliability(_, _)
SumReliability(sources, i) ==
    IF i > Len(sources) THEN Fraction(0, 1)
    ELSE Plus(Fraction(IF "reliability" \in DOMAIN sources[i]
                       THEN sources[i].reliability ELSE 50, 100),
              SumReliability(sources, i + 1))

\* analyst.py line 299: sum(confidence.values()) / len(confidence), the dict
\* holding the three components when the line runs
MeanOfThree(source_reliability, data_completeness, consistency) ==
    Over(Plus(Plus(source_reliability, data_completeness), consistency), 3)

\* a mean that counts the source reliability twice
MeanOfThree_Weighted(source_reliability, data_completeness, consistency) ==
    Over(Plus(Plus(Plus(source_reliability, source_reliability), data_completeness),
              consistency), 4)

\* a scoring whose overall is a weighted mean
CalculateConfidence_Weighted(sources, fs) ==
    LET source_reliability == IF sources # <<>>
                              THEN Over(SumReliability(sources, 1), Len(sources))
                              ELSE Fraction(0, 1)
        data_completeness == IF AtMost(Fraction(Len(fs), 10), Fraction(1, 1))
                             THEN Fraction(Len(fs), 10) ELSE Fraction(1, 1)
        consistency == Fraction(8, 10)
    IN  [source_reliability |-> source_reliability,
         data_completeness |-> data_completeness,
         consistency |-> consistency,
         overall |-> MeanOfThree_Weighted(source_reliability, data_completeness, consistency)]

\* analyst.py lines 278-300: _calculate_confidence
CalculateConfidence(sources, fs) ==
    LET source_reliability == IF sources # <<>>
                              THEN Over(SumReliability(sources, 1), Len(sources))
                              ELSE Fraction(0, 1)
        data_completeness == IF AtMost(Fraction(Len(fs), 10), Fraction(1, 1))
                             THEN Fraction(Len(fs), 10) ELSE Fraction(1, 1)
        consistency == Fraction(8, 10)
    IN  [source_reliability |-> source_reliability,
         data_completeness |-> data_completeness,
         consistency |-> consistency,
         overall |-> MeanOfThree(source_reliability, data_completeness, consistency)]

calculate_confidence ==
    /\ analysis_input # PyNone
    /\ confidence_levels' = PyDict(CalculateConfidence(analysis_input.sources,
                                                analysis_input.findings))
    /\ UNCHANGED <<findings, patterns, contradictions, analysis_input, insights_generated,
                   outside_analyst>>

\* analyst.py lines 185-192: the insights of the patterns, from the k-th on;
\* a confidence is a number of hundredths
RECURSIVE PatternInsights(_, _)
PatternInsights(ps, k) ==
    IF k > Len(ps) THEN <<>>
    ELSE (IF ps[k].strength = "strong"
          THEN << [type |-> "pattern-based",
                   content |-> "Strong " \o ps[k].theme
                               \o " trend observed across multiple sources",
                   confidence |-> 80,
                   supporting_evidence |-> ps[k].frequency] >>
          ELSE <<>>)
         \o PatternInsights(ps, k + 1)

\* a generator that sees coverage from 5 findings on
CountInsight_FromFive(fs) ==
    IF Len(fs) >= 5
    THEN << [type |-> "coverage",
             content |-> "Comprehensive coverage with multiple corroborating sources",
             confidence |-> 90,
             supporting_evidence |-> Len(fs)] >>
    ELSE IF Len(fs) < 2
    THEN << [type |-> "limitation",
             content |-> "Limited data available, additional research recommended",
             confidence |-> 50,
             supporting_evidence |-> Len(fs)] >>
    ELSE <<>>

\* analyst.py lines 195-208: the insight of the number of findings
CountInsight(fs) ==
    IF Len(fs) > 5
    THEN << [type |-> "coverage",
             content |-> "Comprehensive coverage with multiple corroborating sources",
             confidence |-> 90,
             supporting_evidence |-> Len(fs)] >>
    ELSE IF Len(fs) < 2
    THEN << [type |-> "limitation",
             content |-> "Limited data available, additional research recommended",
             confidence |-> 50,
             supporting_evidence |-> Len(fs)] >>
    ELSE <<>>

\* analyst.py lines 179-210: _generate_insights
GenerateInsights(ps, fs) == PatternInsights(ps, 1) \o CountInsight(fs)

generate_insights ==
    /\ analysis_input # PyNone
    /\ insights_generated' = PyList(GenerateInsights(analysis_input.patterns,
                                           analysis_input.findings))
    /\ UNCHANGED <<findings, patterns, contradictions, analysis_input, confidence_levels,
                   outside_analyst>>

(* --------------------------------------------------------- the synthesizer *)
InitSynthesizer ==
    /\ synthesis_input = PyNone
    /\ summary = PyNone
    /\ organized = PyNone
    /\ set_order = <<"academic", "government", "general">>
    /\ reports = <<>>

\* a float, as its number of hundredths
PyFloat(hundredths) == [t |-> "float", hundredths |-> hundredths]

\* a dict with the entries that are not Absent
Absent == [t |-> "absent"]
DictOf(entries) ==
    PyDict([key \in {k \in DOMAIN entries : entries[k] # Absent} |-> entries[key]])

\* str(n) of an int that is not negative
RECURSIVE Str(_)
Str(n) ==
    IF n < 10 THEN SubSeq("0123456789", n + 1, n + 1)
    ELSE Str(n \div 10) \o SubSeq("0123456789", (n % 10) + 1, (n % 10) + 1)

\* sep.join(parts)
RECURSIVE Join(_, _)
Join(parts, sep) ==
    IF parts = <<>> THEN ""
    ELSE IF Len(parts) = 1 THEN parts[1]
    ELSE parts[1] \o sep \o Join(Tail(parts), sep)

\* synthesizer.py lines 200, 209: i.get('confidence', 0) > 0.7 and
\* p.get('strength') == 'strong'
IsHighConfidence(i) == Get(i, "confidence", PyFloat(0)).hundredths > 70
IsStrong(p) == Get(p, "strength", PyNone) = PyStr("strong")

\* synthesizer.py lines 197-204
InsightsPart(analysis_results) ==
    LET insights == Get(analysis_results, "insights", PyList(<<>>)).items
        high_conf == SelectSeq(insights, IsHighConfidence)
    IN  IF high_conf # <<>>
        THEN << "The analysis revealed " \o Str(Len(high_conf))
                    \o " high-confidence insights." >>
        ELSE <<>>

\* synthesizer.py lines 206-214
PatternsPart(analysis_results) ==
    LET ps == Get(analysis_results, "patterns", PyList(<<>>)).items
        strong_patterns == SelectSeq(ps, IsStrong)
        themes == [i \in 1..Len(strong_patterns) |-> strong_patterns[i].d["theme"].s]
    IN  IF strong_patterns # <<>>
        THEN << "Strong patterns identified in: " \o Join(themes, ", ") \o "." >>
        ELSE <<>>

HighSentence == "The findings demonstrate high reliability and consistency."
ModerateSentence == "The findings show moderate reliability with some variations."
LowSentence == "Additional research is recommended to strengthen conclusions."

\* a choice that is high from 0.7 on
ConfidencePart_HighFromSeventy(confidence) ==
    IF confidence >= 70 THEN HighSentence
    ELSE IF confidence > 50 THEN ModerateSentence
    ELSE LowSentence

\* a choice that is moderate from 0.5 on
ConfidencePart_ModerateFromHalf(confidence) ==
    IF confidence > 70 THEN HighSentence
    ELSE IF confidence >= 50 THEN ModerateSentence
    ELSE LowSentence

\* synthesizer.py lines 218-223, the confidence in hundredths
ConfidencePart(confidence) ==
    IF confidence > 70 THEN HighSentence
    ELSE IF confidence > 50 THEN ModerateSentence
    ELSE LowSentence

\* synthesizer.py line 217:
\* analysis_results.get('confidence_levels', {}).get('overall', 0)
Overall(analysis_results) ==
    Get(Get(analysis_results, "confidence_levels", PyDict(EmptyDict)),
        "overall", PyFloat(0)).hundredths

\* synthesizer.py lines 191-192
FindingsCount(gathered_info) == Len(Get(gathered_info, "main_findings", PyList(<<>>)).items)
SourcesCount(gathered_info) == Len(Get(gathered_info, "sources_used", PyList(<<>>)).items)

\* synthesizer.py lines 180-225: _create_executive_summary
CreateExecutiveSummary(query, gathered_info, analysis_results) ==
    Join(<< "This report addresses the research query: '" \o query \o "'",
            "Based on analysis of " \o Str(SourcesCount(gathered_info))
                \o " sources and " \o Str(FindingsCount(gathered_info))
                \o " key findings:" >>
         \o InsightsPart(analysis_results)
         \o PatternsPart(analysis_results)
         \o << ConfidencePart(Overall(analysis_results)) >>,
         " ")

create_executive_summary ==
    /\ synthesis_input # PyNone
    /\ summary' = PyStr(CreateExecutiveSummary(synthesis_input.query,
                                               synthesis_input.gathered_info,
                                               synthesis_input.analysis_results))
    /\ UNCHANGED <<synthesis_input, organized, set_order, reports, outside_synthesizer>>

\* str.upper() on one character
UpperChar(c) ==
    IF \E i \in 1..26 : SubSeq("abcdefghijklmnopqrstuvwxyz", i, i) = c
    THEN LET i == CHOOSE i \in 1..26 : SubSeq("abcdefghijklmnopqrstuvwxyz", i, i) = c
         IN  SubSeq("ABCDEFGHIJKLMNOPQRSTUVWXYZ", i, i)
    ELSE c

IsLetter(c) == LowerChar(c) # c \/ UpperChar(c) # c

\* str.title(): the first letter of every run of letters in capitals, the
\* other letters in lower case; after_letter says whether a letter precedes s
RECURSIVE TitleFrom(_, _)
TitleFrom(s, after_letter) ==
    IF s = "" THEN ""
    ELSE (IF after_letter THEN LowerChar(Head(s)) ELSE UpperChar(Head(s)))
         \o TitleFrom(Tail(s), IsLetter(Head(s)))

Title(s) == TitleFrom(s, FALSE)

\* synthesizer.py lines 310-313: the findings related to a pattern's theme
Related(raw_findings, theme) ==
    LET IsRelated(f) == Contains(Content(f), Lower(theme))
    IN  SelectSeq(raw_findings, IsRelated)

\* synthesizer.py lines 308-320: the groups of the patterns, from the k-th on
RECURSIVE PatternGroups(_, _, _)
PatternGroups(raw_findings, ps, k) ==
    IF k > Len(ps) THEN <<>>
    ELSE LET theme == ps[k].d["theme"].s
             related_findings == Related(raw_findings, theme)
         IN  (IF related_findings # <<>>
              THEN << PyDict([theme |-> PyStr(Title(theme)),
                              findings |-> PyList(related_findings),
                              pattern_strength |->
                                  Get(ps[k], "strength", PyStr("moderate"))]) >>
              ELSE <<>>)
             \o PatternGroups(raw_findings, ps, k + 1)

\* synthesizer.py lines 323-326: the texts of the grouped findings
GroupedFindings(organized_findings) ==
    LET Texts_(fs) == {Get(fs[i], "finding", PyStr("")).s : i \in 1..Len(fs)}
    IN  UNION {Texts_(organized_findings[g].d["findings"].items) :
                   g \in 1..Len(organized_findings)}

\* synthesizer.py lines 328-338: the group of the findings no pattern claimed
AdditionalGroup(raw_findings, organized_findings) ==
    LET grouped_findings == GroupedFindings(organized_findings)
        IsUngrouped(f) == Get(f, "finding", PyStr("")).s \notin grouped_findings
        ungrouped == SelectSeq(raw_findings, IsUngrouped)
    IN  IF ungrouped # <<>>
        THEN << PyDict([theme |-> PyStr("Additional Findings"),
                        findings |-> PyList(ungrouped),
                        pattern_strength |-> PyStr("individual")]) >>
        ELSE <<>>

\* an organizer that makes the groups of the patterns only
OrganizeFindings_PatternsOnly(gathered_info, analysis_results) ==
    PatternGroups(Get(gathered_info, "main_findings", PyList(<<>>)).items,
                  Get(analysis_results, "patterns", PyList(<<>>)).items, 1)

\* synthesizer.py lines 296-340: _organize_findings
OrganizeFindings(gathered_info, analysis_results) ==
    LET raw_findings == Get(gathered_info, "main_findings", PyList(<<>>)).items
        ps == Get(analysis_results, "patterns", PyList(<<>>)).items
        organized_findings == PatternGroups(raw_findings, ps, 1)
    IN  organized_findings \o AdditionalGroup(raw_findings, organized_findings)

organize_findings ==
    /\ synthesis_input # PyNone
    /\ organized' = PyList(OrganizeFindings(synthesis_input.gathered_info,
                                            synthesis_input.analysis_results))
    /\ UNCHANGED <<synthesis_input, summary, set_order, reports, outside_synthesizer>>

(* -------------------------------------------------------------- the report *)
\* an int
PyInt(n) == [t |-> "int", n |-> n]

\* f"{x:.0%}" of a float or of the int 0
Percent(x) == IF x.t = "float" THEN Str(x.hundredths) \o "%" ELSE Str(100 * x.n) \o "%"

\* str.upper()
RECURSIVE Upper(_)
Upper(s) == IF s = "" THEN "" ELSE UpperChar(Head(s)) \o Upper(Tail(s))

\* str.capitalize()
Capitalize(s) == IF s = "" THEN "" ELSE UpperChar(Head(s)) \o Lower(Tail(s))

\* str.strip(c) for one character c
RECURSIVE StripChar(_, _)
StripChar(s, c) ==
    IF s = "" THEN ""
    ELSE IF Head(s) = c THEN StripChar(Tail(s), c)
    ELSE IF SubSeq(s, Len(s), Len(s)) = c THEN StripChar(SubSeq(s, 1, Len(s) - 1), c)
    ELSE s

\* where the words of s start: str.split() cuts at runs of whitespace
WordStarts(s) ==
    {i \in 1..Len(s) :
        /\ SubSeq(s, i, i) \notin Whitespace
        /\ i = 1 \/ SubSeq(s, i - 1, i - 1) \in Whitespace}

\* len(s.split())
WordCount(s) == Cardinality(WordStarts(s))

\* s.split(), from the word that starts at i on
RECURSIVE SplitFrom(_, _)
SplitFrom(s, i) ==
    LET later == {j \in WordStarts(s) : j >= i}
    IN  IF later = {} THEN <<>>
        ELSE LET from == Min(later)
                 ends == {j \in from..Len(s) :
                             j = Len(s) \/ SubSeq(s, j + 1, j + 1) \in Whitespace}
             IN  <<SubSeq(s, from, Min(ends))>> \o SplitFrom(s, Min(ends) + 1)

Split(s) == SplitFrom(s, 1)

\* synthesizer.py line 168
Acronyms == {"AI", "ML", "NLP", "API", "URL", "PDF", "CSV"}

\* synthesizer.py lines 162-178: _generate_title
GenerateTitle(query) ==
    LET words == Split(StripChar(query, "?"))
        titled_words == [i \in 1..Len(words) |->
                            IF Upper(words[i]) \in Acronyms THEN Upper(words[i])
                            ELSE Capitalize(words[i])]
    IN  "Research Report: " \o Join(titled_words, " ")

\* synthesizer.py lines 238-244: the type of a source, "" without a url
SourceType(source) ==
    IF "url" \notin DOMAIN source.d THEN ""
    ELSE IF Contains(source.d["url"].s, ".edu") THEN "academic"
    ELSE IF Contains(source.d["url"].s, ".gov") THEN "government"
    ELSE "general"

\* synthesizer.py lines 227-261: _create_introduction; order is the order in
\* which the set source_types is iterated
CreateIntroduction(query, gathered_info, order) ==
    LET sources == Get(gathered_info, "sources_used", PyList(<<>>)).items
        source_types == {SourceType(sources[i]) : i \in 1..Len(sources)} \ {""}
        IsType(type) == type \in source_types
    IN  Join(<< "This research report explores: " \o query >>
             \o (IF source_types # {}
                 THEN << "The research encompasses "
                         \o Join(SelectSeq(order, IsType), ", ")
                         \o " sources to provide a comprehensive perspective." >>
                 ELSE <<>>)
             \o << "The objectives of this report are to: "
                   \o "1) Gather relevant information, "
                   \o "2) Analyze key patterns and insights, "
                   \o "3) Provide actionable conclusions and recommendations." >>,
             " ")

\* synthesizer.py lines 263-294: _create_methodology
CreateMethodology(gathered_info) ==
    Join(<< "This research employed a systematic approach:",
            "1. Information Gathering: Comprehensive search across multiple sources "
                \o "using targeted queries and academic databases.",
            "2. Source Evaluation: " \o Str(SourcesCount(gathered_info))
                \o " sources were evaluated for credibility, relevance, and recency.",
            "3. Data Analysis: Pattern identification, comparative analysis, "
                \o "and insight generation using systematic analytical methods.",
            "4. Synthesis: Integration of findings into coherent conclusions "
                \o "and actionable recommendations." >>,
         " ")

\* synthesizer.py lines 342-389: _create_analysis_section
CreateAnalysisSection(analysis_results) ==
    LET ps == Get(analysis_results, "patterns", PyList(<<>>)).items
        insights == Get(analysis_results, "insights", PyList(<<>>)).items
        cs == Get(analysis_results, "contradictions", PyList(<<>>)).items
        confidence == Get(analysis_results, "confidence_levels", PyDict(EmptyDict))
    IN  DictOf(
          [patterns |->
               IF ps # <<>>
               THEN PyDict([description |-> PyStr("The following patterns emerged from the data:"),
                            items |-> PyList([i \in 1..Len(ps) |->
                                PyStr(Title(ps[i].d["theme"].s) \o " trend ("
                                      \o ps[i].d["strength"].s \o " strength)")])])
               ELSE Absent,
           insights |->
               IF insights # <<>>
               THEN PyDict([description |-> PyStr("Key insights from the analysis:"),
                            items |-> PyList([i \in 1..Len(insights) |->
                                PyDict([content |-> insights[i].d["content"],
                                        confidence |-> Get(insights[i], "confidence", PyFloat(50)),
                                        type |-> Get(insights[i], "type", PyStr("general"))])])])
               ELSE Absent,
           contradictions |->
               IF cs # <<>>
               THEN PyDict([description |-> PyStr("Conflicting information was identified:"),
                            items |-> PyList([i \in 1..Len(cs) |->
                                PyStr(cs[i].d["source1"].s \o " vs " \o cs[i].d["source2"].s
                                      \o ": " \o cs[i].d["conflict"].s)])])
               ELSE Absent,
           confidence |->
               PyDict([overall |-> Get(confidence, "overall", PyFloat(50)),
                       source_reliability |-> Get(confidence, "source_reliability", PyFloat(50)),
                       data_completeness |-> Get(confidence, "data_completeness", PyFloat(50))])])

\* synthesizer.py lines 391-431: _create_conclusions
CreateConclusions(analysis_results) ==
    LET strong_patterns == SelectSeq(Get(analysis_results, "patterns", PyList(<<>>)).items,
                                     IsStrong)
        high_conf_insights == SelectSeq(Get(analysis_results, "insights", PyList(<<>>)).items,
                                        IsHighConfidence)
        overall_conf == Get(Get(analysis_results, "confidence_levels", PyDict(EmptyDict)),
                            "overall", PyFloat(50)).hundredths
    IN  (IF strong_patterns # <<>>
         THEN << PyStr("The research identifies " \o Str(Len(strong_patterns))
                       \o " strong patterns, indicating clear trends in the data.") >>
         ELSE <<>>)
        \o (IF high_conf_insights # <<>>
            THEN << PyStr("Analysis reveals " \o Str(Len(high_conf_insights))
                          \o " high-confidence insights that provide actionable understanding.") >>
            ELSE <<>>)
        \o (IF overall_conf > 70
            THEN << PyStr("The findings are well-supported by reliable sources and consistent data.") >>
            ELSE IF overall_conf < 50
            THEN << PyStr("The current evidence base is limited; additional research is recommended.") >>
            ELSE <<>>)
        \o << PyStr("This research provides valuable insights into the topic, "
                    \o "though continued monitoring and analysis are advised.") >>

\* synthesizer.py lines 442-448: the recommendations of the first insights,
\* from the i-th on
RECURSIVE InsightRecommendations(_, _)
InsightRecommendations(insights, i) ==
    IF i > Len(insights) \/ i > 3 THEN <<>>
    ELSE LET confidence == Get(insights[i], "confidence", PyInt(0))
             level == IF confidence.t = "float" THEN confidence.hundredths ELSE 100 * confidence.n
         IN  (IF level > 60
              THEN << PyDict([priority |-> PyStr(IF level > 80 THEN "high" ELSE "medium"),
                              recommendation |->
                                  PyStr("Based on " \o insights[i].d["type"].s \o " analysis: "
                                        \o insights[i].d["content"].s),
                              rationale |-> PyStr("Confidence level: " \o Percent(confidence))]) >>
              ELSE <<>>)
             \o InsightRecommendations(insights, i + 1)

\* synthesizer.py lines 433-466: _create_recommendations
CreateRecommendations(query, analysis_results) ==
    InsightRecommendations(Get(analysis_results, "insights", PyList(<<>>)).items, 1)
    \o (IF Get(Get(analysis_results, "confidence_levels", PyDict(EmptyDict)),
               "data_completeness", PyFloat(100)).hundredths < 50
        THEN << PyDict([priority |-> PyStr("medium"),
                        recommendation |-> PyStr("Conduct additional research to address data gaps"),
                        rationale |-> PyStr("Current data completeness is below optimal levels")]) >>
        ELSE <<>>)
    \o (IF Truthy(Get(analysis_results, "contradictions", PyNone))
        THEN << PyDict([priority |-> PyStr("medium"),
                        recommendation |-> PyStr("Investigate and resolve conflicting information"),
                        rationale |-> PyStr("Multiple contradictions identified in sources")]) >>
        ELSE <<>>)

\* synthesizer.py lines 468-483: _compile_references
CompileReferences(gathered_info) ==
    LET sources == Get(gathered_info, "sources_used", PyList(<<>>)).items
    IN  [i \in 1..Len(sources) |->
            PyDict([id |-> PyStr("[" \o Str(i) \o "]"),
                    title |-> Get(sources[i], "title", PyStr("Untitled")),
                    url |-> Get(sources[i], "url", PyStr("")),
                    reliability |-> PyStr(Percent(Get(sources[i], "reliability", PyInt(0))))])]

\* synthesizer.py lines 110-147: the report, created_at being timestamp
AssembleReport(query, gathered_info, analysis_results, timestamp, order) ==
    PyDict([title |-> PyStr(GenerateTitle(query)),
            executive_summary |->
                PyStr(CreateExecutiveSummary(query, gathered_info, analysis_results)),
            introduction |-> PyStr(CreateIntroduction(query, gathered_info, order)),
            methodology |-> PyStr(CreateMethodology(gathered_info)),
            findings |-> PyList(OrganizeFindings(gathered_info, analysis_results)),
            analysis |-> CreateAnalysisSection(analysis_results),
            conclusions |-> PyList(CreateConclusions(analysis_results)),
            recommendations |-> PyList(CreateRecommendations(query, analysis_results)),
            references |-> PyList(CompileReferences(gathered_info)),
            metadata |->
                PyDict([created_at |-> [t |-> "datetime", at |-> timestamp],
                        query |-> PyStr(query),
                        confidence_score |->
                            Get(Get(analysis_results, "confidence_levels", PyDict(EmptyDict)),
                                "overall", PyFloat(50))])])

\* synthesizer.py lines 498-505: the words of the str values of a dict
RECURSIVE DictWords(_, _)
DictWords(d, keys) ==
    IF keys = {} THEN 0
    ELSE LET k == CHOOSE k \in keys : TRUE
         IN  (IF d[k].t = "str" THEN WordCount(d[k].s) ELSE 0) + DictWords(d, keys \ {k})

\* synthesizer.py lines 494-505: the words of the items of a list, from the i-th on
RECURSIVE ListWords(_, _)
ListWords(items, i) ==
    IF i > Len(items) THEN 0
    ELSE (IF items[i].t = "str" THEN WordCount(items[i].s)
          ELSE IF items[i].t = "dict" THEN DictWords(items[i].d, DOMAIN items[i].d)
          ELSE 0)
         + ListWords(items, i + 1)

\* synthesizer.py lines 485-507: _estimate_word_count, over the keys given
RECURSIVE EstimateWordCount(_, _)
EstimateWordCount(report, keys) ==
    IF keys = {} THEN 0
    ELSE LET k == CHOOSE k \in keys : TRUE
         IN  (IF report.d[k].t = "str" THEN WordCount(report.d[k].s)
              ELSE IF report.d[k].t = "list" THEN ListWords(report.d[k].items, 1)
              ELSE 0)
             + EstimateWordCount(report, keys \ {k})

\* synthesizer.py lines 151-158: what the synthesizer shares about a report
ReportStatus(report) ==
    PyDict([status |-> PyStr("completed"),
            report_sections |->
                PyInt(Cardinality({k \in DOMAIN report.d : Truthy(report.d[k])})),
            word_count |-> PyInt(EstimateWordCount(report, DOMAIN report.d))])

\* the memory after the inputs and the report are stored and the status shared
Stored(st, sd, query, gathered_info, analysis_results, timestamp, report) ==
    [short_term |->
         StoreShortTerm(
             StoreShortTerm(st, "synthesis_inputs",
                            PyDict([query |-> PyStr(query),
                                    gathered_info |-> gathered_info,
                                    analysis_results |-> analysis_results]),
                            PyNone, timestamp),
             "completed_report", report, PyNone, timestamp),
     shared_data |-> ShareData(sd, "content_synthesizer", ReportStatus(report),
                               PyStr("normal"), timestamp),
     report |-> report]

\* an assembler that hands out the report it finds in the memory
SynthesizeReport_KeepsStored(st, sd, query, gathered_info, analysis_results, timestamp, order) ==
    Stored(st, sd, query, gathered_info, analysis_results, timestamp,
           IF "completed_report" \in DOMAIN st /\ st["completed_report"].value.t = "dict"
           THEN st["completed_report"].value
           ELSE AssembleReport(query, gathered_info, analysis_results, timestamp, order))

\* synthesizer.py lines 86-160: synthesize_report on a memory that holds st and
\* sd: the memory after the call and the report it returns
SynthesizeReport(st, sd, query, gathered_info, analysis_results, timestamp, order) ==
    Stored(st, sd, query, gathered_info, analysis_results, timestamp,
           AssembleReport(query, gathered_info, analysis_results, timestamp, order))

\* the call is recorded with what it was given, found and returned
Synthesized(input, r) ==
    /\ short_term' = r.short_term
    /\ shared_data' = r.shared_data
    /\ reports' = Append(reports, [input |-> input,
                                   at |-> now,
                                   found |-> GetShortTerm(short_term, "completed_report"),
                                   report |-> r.report])
    /\ UNCHANGED <<long_term, init_timestamp, now, call, before, last_stored, reads,
                   synthesis_input, summary, organized, set_order,
                   outside_synthesizer_and_store>>

synthesize_report(input) ==
    /\ Len(reports) < MaxReports
    /\ Synthesized(input,
                   SynthesizeReport(short_term, shared_data, input.query,
                                    input.gathered_info, input.analysis_results,
                                    now, set_order))

(* ------------------------------------------------------ the tools manager *)
\* tools_manager.py line 269: _tools_manager = None
InitTools ==
    /\ tools_manager = PyNone
    /\ managers = <<>>
    /\ manager_calls = <<>>

\* a ToolsManager, by its position among the instances created
Manager(id) == [t |-> "ToolsManager", id |-> id]

\* a getter that makes a new manager whenever it is given a config
GetToolsManager_NewForConfig(tm, ms, config) ==
    IF tm = PyNone \/ config # PyNone
    THEN [tools_manager |-> Manager(Len(ms) + 1),
          managers |-> Append(ms, IF Truthy(config) THEN config ELSE PyDict(EmptyDict)),
          ret |-> Manager(Len(ms) + 1)]
    ELSE [tools_manager |-> tm, managers |-> ms, ret |-> tm]

\* tools_manager.py lines 272-287: get_tools_manager; a new ToolsManager keeps
\* config or {} (line 28)
GetToolsManager(tm, ms, config) ==
    IF tm = PyNone
    THEN [tools_manager |-> Manager(Len(ms) + 1),
          managers |-> Append(ms, IF Truthy(config) THEN config ELSE PyDict(EmptyDict)),
          ret |-> Manager(Len(ms) + 1)]
    ELSE [tools_manager |-> tm, managers |-> ms, ret |-> tm]

get_tools_manager(config) ==
    LET r == GetToolsManager(tools_manager, managers, config)
    IN  /\ Len(manager_calls) < MaxManagerCalls
        /\ tools_manager' = r.tools_manager
        /\ managers' = r.managers
        /\ manager_calls' = Append(manager_calls,
                                   [op |-> "get_tools_manager", config |-> config,
                                    ret |-> r.ret])
        /\ UNCHANGED outside_tools

\* tools_manager.py lines 290-293: reset_tools_manager
reset_tools_manager ==
    /\ Len(manager_calls) < MaxManagerCalls
    /\ tools_manager' = PyNone
    /\ manager_calls' = Append(manager_calls,
                               [op |-> "reset_tools_manager", config |-> PyNone,
                                ret |-> PyNone])
    /\ UNCHANGED <<managers, outside_tools>>

(* ------------------------------------------------------------ the inputs *)
Meta1 == PyDict([k \in {"type"} |-> PyStr("test")])
DictAI == PyDict([k \in {"AI"} |-> PyStr("artificial intelligence")])
DictAI2 == PyDict([k \in {"AI"} |-> PyStr("AI")])
DictML == PyDict([k \in {"ML"} |-> PyStr("machine learning")])

\* One call on the short-term namespace, its arguments drawn from the given sets.
ShortCalls(keys, values, metas) ==
    \/ \E key \in keys, value \in values, metadata \in metas :
           store_short_term(key, value, metadata)
    \/ \E key \in keys : get_short_term(key)
    \/ clear_short_term

\* One call on the long-term namespace.
LongCalls(categories, datas, operations) ==
    \/ \E category \in categories, data \in datas, operation \in operations :
           store_long_term(category, data, operation)
    \/ \E category \in categories : get_long_term(category)

\* One call on the shared namespace.  priority and clear_shared_data's agent_id
\* are optional: None stands for the argument left out.
SharedCalls(agents, datas, priorities) ==
    \/ \E agent_id \in agents, data \in datas, priority \in priorities :
           share_data(agent_id, data, priority)
    \/ \E agent_id \in agents : get_shared_data(agent_id)
    \/ \E priority \in priorities \cup {PyNone} : get_all_shared_data(priority)
    \/ \E agent_id \in {PyStr(a) : a \in agents} \cup {PyNone} : clear_shared_data(agent_id)

\* One call that reads the whole store.
ReadCalls ==
    \/ get_memory_stats
    \/ export_memory

\* The short-term namespace in detail, while time passes; the other two
\* namespaces with one input each.
NextShort ==
    \/ Tick
    \/ ShortCalls({"k1", "k2"}, {PyStr("v1"), PyStr("v2")}, {PyNone, Meta1})
    \/ LongCalls({"topic_knowledge"}, {DictAI}, {"update"})
    \/ SharedCalls({"agent1"}, {PyStr("data1")}, {PyStr("normal")})
    \/ ReadCalls

\* The long-term namespace in detail: a category that __init__ creates and one
\* that the first write creates.
NextLong ==
    \/ LongCalls({"reliable_sources", "identified_patterns"},
                 {DictAI, DictAI2, DictML},
                 {"append", "update", "set", "delete"})
    \/ ReadCalls

\* The shared namespace in detail ("" is a str like any other agent id); the
\* other two namespaces with one input each.
NextShared ==
    \/ ShortCalls({"k1"}, {PyStr("v1")}, {PyNone})
    \/ LongCalls({"topic_knowledge"}, {PyStr("source1"), DictAI}, {"update"})
    \/ SharedCalls({"agent1", ""}, {PyStr("data1"), PyStr("data2")},
                   {PyStr("high"), PyStr("normal"), PyStr("low")})
    \/ ReadCalls

\* Two stores: calls on either, and B importing what A exports, whole or with
\* sections left out.
NextImport ==
    \/ \E s \in StoreNames : store_short_term_on(s, "k1", PyStr("v1"))
    \/ \E s \in StoreNames : clear_short_term_on(s)
    \/ \E s \in StoreNames : store_long_term_on(s, "reliable_sources", PyStr("source1"), "append")
    \/ \E s \in StoreNames : share_data_on(s, "agent1", PyStr("data1"), PyStr("normal"))
    \/ \E s \in StoreNames : get_shared_data_on(s, "agent1")
    \/ \E s \in StoreNames : clear_shared_data_on(s, PyNone)
    \/ \E kept \in SUBSET Sections : import_memory("B", "A", kept)

\* what an agent can store as 'completed_report'
Report1 == PyDict([title |-> PyStr("Research Report: AI")])
Reports == {Report1, PyDict(EmptyDict)}

\* what an agent can share: a status, a source
Status1 == PyDict([status |-> PyStr("completed")])
Source1 == PyDict([title |-> PyStr("Report A")])

\* how a run can go
Outcomes ==
    {[fail |-> "none", error |-> "", done |-> 4, text |-> text, report |-> PyNone] :
        text \in Texts}
    \cup
    {[fail |-> "none", error |-> "", done |-> 4, text |-> TextPlain, report |-> report] :
        report \in Reports}
    \cup
    {[fail |-> fail, error |-> "Test error", done |-> 0, text |-> "", report |-> PyNone] :
        fail \in {"create_research_tasks", "Crew"}}
    \cup
    {[fail |-> "kickoff", error |-> "Test error", done |-> done, text |-> "",
      report |-> PyNone] : done \in 0..3}
    \cup
    {[fail |-> "results", error |-> "Test error", done |-> 4, text |-> TextPlain,
      report |-> report] : report \in {PyNone, Report1}}

\* One ResearchCrew: runs, the agents' writes to its memory between runs, and
\* clear_memory.
NextCrew ==
    \/ \E query \in {"AI", "ML"}, outcome \in Outcomes : execute_research(query, outcome)
    \/ \E report \in Reports : agent_stores_report(report)
    \/ \E data \in {Status1, Source1} : agent_shares("information_gatherer", data)
    \/ clear_memory

\* a request's config
Config1 == PyDict([verbose |-> PyStr("False")])

\* The API: requests with and without a config, with a query or a blank one,
\* whose runs succeed or fail.
NextApi ==
    /\ Len(served) < MaxRequests
    /\ \E query \in {"AI", "  "}, config \in {PyNone, PyDict(EmptyDict), Config1},
          outcome \in {o \in Outcomes : o.text = TextPlain /\ o.report = PyNone} :
           research_sync(query, config, outcome)

\* The API under requests without a config, with a query or a blank one, whose
\* runs succeed or fail at kickoff.
NextRecent ==
    /\ Len(served) < MaxRecent
    /\ \E query \in {"AI", "  "},
          outcome \in {o \in Outcomes : /\ o.text \in {TextPlain, ""}
                                        /\ o.report = PyNone
                                        /\ o.fail \in {"none", "kickoff"}
                                        /\ o.done \in {0, 4}} :
           research_sync(query, PyNone, outcome)

\* findings the analyst can be given: the two of the contradiction scenario,
\* one in capitals that repeats a keyword and has another, two that oppose each other in two
\* ways, one without a text
Finding1 == PyDict([finding |-> PyStr("sales increase"),
                    source |-> PyDict([title |-> PyStr("Report A")])])
Finding2 == PyDict([finding |-> PyStr("sales decrease"),
                    source |-> PyDict([title |-> PyStr("Report B")])])
Finding3 == PyDict([finding |-> PyStr("INCREASE on Increase, big impact")])
Finding4 == PyDict([finding |-> PyStr("Positive growth")])
Finding5 == PyDict([finding |-> PyStr("negative, a decline")])
Finding6 == PyDict([source |-> PyDict([title |-> PyStr("Report C")])])
FindingPool == {Finding1, Finding2, Finding3, Finding4, Finding5, Finding6}

FindingLists == UNION {[1..n -> FindingPool] : n \in 0..MaxFindings}

NextAnalyst ==
    \/ identify_patterns
    \/ find_contradictions

\* what _calculate_confidence and _generate_insights can be given: sources
\* with and without a reliability, findings that contradict one another or
\* not, patterns of both strengths
ScoredSources ==
    UNION {[1..n -> {[title |-> "Report A"]}
                        \cup {[reliability |-> r] : r \in {0, 85, 100}}] :
               n \in 0..MaxSources}

ScoredFindings ==
    {[i \in 1..n |-> Finding1] : n \in 0..MaxScored}
        \cup {<<Finding1, Finding2>>, <<Finding2, Finding1, Finding2>>}

ScoredPatterns ==
    {<<>>,
     <<Pattern([theme |-> "increase", count |-> 3])>>,
     <<Pattern([theme |-> "growth", count |-> 2])>>,
     <<Pattern([theme |-> "increase", count |-> 3]),
       Pattern([theme |-> "growth", count |-> 2]),
       Pattern([theme |-> "impact", count |-> 4])>>,
     <<Pattern([theme |-> "increase", count |-> 3]),
       Pattern([theme |-> "increase", count |-> 3])>>}

NextAnalysis ==
    \/ calculate_confidence
    \/ generate_insights

\* what the synthesizer can be given
Source1Used == PyDict([title |-> PyStr("Report A")])
Insight(hundredths) == PyDict([confidence |-> PyFloat(hundredths)])
StrongPattern(theme) ==
    PyDict([type |-> PyStr("trend"), theme |-> PyStr(theme), strength |-> PyStr("strong")])
ModeratePattern(theme) ==
    PyDict([type |-> PyStr("trend"), theme |-> PyStr(theme), strength |-> PyStr("moderate")])

GatheredInfos ==
    {DictOf([main_findings |-> fs, sources_used |-> ss]) :
        fs \in {Absent} \cup {PyList([i \in 1..n |-> Finding1]) : n \in 0..MaxFindings},
        ss \in {Absent} \cup {PyList([i \in 1..n |-> Source1Used]) : n \in 0..MaxSources}}

InsightLists ==
    {Absent, PyList(<<>>), PyList(<<Insight(70)>>), PyList(<<Insight(71)>>),
     PyList(<<Insight(80), PyDict(EmptyDict), Insight(90)>>)}

PatternLists ==
    {Absent, PyList(<<ModeratePattern("growth")>>),
     PyList(<<StrongPattern("increase")>>),
     PyList(<<StrongPattern("increase"), ModeratePattern("impact"),
              StrongPattern("growth")>>)}

ConfidenceLevels ==
    {Absent, PyDict(EmptyDict)}
        \cup {PyDict([overall |-> PyFloat(c)]) : c \in {0, 50, 51, 70, 71, 100}}

AnalysisResults ==
    {DictOf([insights |-> i, patterns |-> p, confidence_levels |-> c]) :
        i \in InsightLists, p \in PatternLists, c \in ConfidenceLevels}

NextSynthesizer == create_executive_summary

\* what _organize_findings can be given: findings with and without a text,
\* repeated or not, and patterns with a theme in capitals, without a strength,
\* with the empty theme, and twice the same
PatternNoStrength(theme) == PyDict([type |-> PyStr("trend"), theme |-> PyStr(theme)])

OrganizePatternLists ==
    {Absent, PyList(<<>>),
     PyList(<<StrongPattern("increase")>>),
     PyList(<<ModeratePattern("Growth"), StrongPattern("increase")>>),
     PyList(<<PatternNoStrength("impact"), StrongPattern("decline")>>),
     PyList(<<StrongPattern("")>>),
     PyList(<<StrongPattern("increase"), StrongPattern("increase")>>)}

OrganizeFindingLists ==
    {Absent} \cup
    {PyList(fs) : fs \in UNION {[1..n -> {Finding1, Finding3, Finding4, Finding6}] :
                                    n \in 0..MaxFindings}}

NextOrganize == organize_findings

\* what synthesize_report can be given: a full input, an empty one and one of
\* low confidence
SourceEdu == PyDict([title |-> PyStr("MIT study"), url |-> PyStr("https://mit.edu/ai"),
                     reliability |-> PyFloat(90)])
SourceGov == PyDict([title |-> PyStr("NIH note"), url |-> PyStr("https://nih.gov/ai"),
                     reliability |-> PyFloat(80)])
SourceCom == PyDict([url |-> PyStr("https://example.com")])
SourceBook == PyDict([title |-> PyStr("Book")])
FullInsight(type, content, hundredths) ==
    PyDict([type |-> PyStr(type), content |-> PyStr(content),
            confidence |-> PyFloat(hundredths)])
Contradiction1 ==
    PyDict([type |-> PyStr("opposing_claims"), source1 |-> PyStr("Report A"),
            source2 |-> PyStr("Report B"), conflict |-> PyStr("increase vs decrease")])

InputFull ==
    [query |-> "what is ai?",
     gathered_info |->
         PyDict([main_findings |-> PyList(<<Finding1, Finding2, Finding3>>),
                 sources_used |-> PyList(<<SourceGov, SourceEdu, SourceCom>>)]),
     analysis_results |->
         PyDict([patterns |-> PyList(<<StrongPattern("increase")>>),
                 insights |-> PyList(<<FullInsight("pattern-based",
                                                   "Strong increase trend observed", 90),
                                       FullInsight("coverage", "Good coverage", 70)>>),
                 contradictions |-> PyList(<<Contradiction1>>),
                 confidence_levels |->
                     PyDict([overall |-> PyFloat(80), source_reliability |-> PyFloat(85),
                             data_completeness |-> PyFloat(30)])])]
InputEmpty ==
    [query |-> "ML", gathered_info |-> PyDict(EmptyDict),
     analysis_results |-> PyDict(EmptyDict)]
InputLow ==
    [query |-> "ML",
     gathered_info |-> PyDict([sources_used |-> PyList(<<SourceBook>>)]),
     analysis_results |-> PyDict([confidence_levels |-> PyDict([overall |-> PyFloat(40)])])]
ReportInputs == {InputFull, InputEmpty, InputLow}

NextReport ==
    \/ \E input \in ReportInputs : synthesize_report(input)
    \/ Tick
    \/ agent_stores_report(Report1)

\* a config for the tools manager
ToolsConfig1 == PyDict([serper |-> PyDict([n_results |-> PyInt(5)])])

NextTools ==
    \/ \E config \in {PyNone, ToolsConfig1} : get_tools_manager(config)
    \/ reset_tools_manager

Init ==
    /\ InitOneStore
    /\ InitTwoStores
    /\ InitCrew
    /\ InitApi
    /\ InitAnalyst
    /\ InitSynthesizer
    /\ InitTools

\* the synthesizer is given any query, gathered information and analysis
InitSynthesis ==
    /\ InitOneStore
    /\ InitTwoStores
    /\ InitCrew
    /\ InitApi
    /\ InitTools
    /\ InitAnalyst
    /\ synthesis_input \in
           [query : {"AI in healthcare"},
            gathered_info : GatheredInfos,
            analysis_results : AnalysisResults]
    /\ summary = PyNone
    /\ organized = PyNone
    /\ set_order = <<"academic", "government", "general">>
    /\ reports = <<>>

\* a process with any order of the source types in a set
InitReport ==
    /\ InitOneStore
    /\ InitTwoStores
    /\ InitCrew
    /\ InitApi
    /\ InitTools
    /\ InitAnalyst
    /\ synthesis_input = PyNone
    /\ summary = PyNone
    /\ organized = PyNone
    /\ set_order \in {order \in [1..3 -> {"academic", "government", "general"}] :
                         \A i \in 1..3 : \A j \in 1..3 : i # j => order[i] # order[j]}
    /\ reports = <<>>

\* _organize_findings is given any findings and patterns
InitOrganize ==
    /\ InitOneStore
    /\ InitTwoStores
    /\ InitCrew
    /\ InitApi
    /\ InitTools
    /\ InitAnalyst
    /\ synthesis_input \in
           [query : {"AI in healthcare"},
            gathered_info : {DictOf([main_findings |-> fs]) : fs \in OrganizeFindingLists},
            analysis_results : {DictOf([patterns |-> ps]) : ps \in OrganizePatternLists}]
    /\ summary = PyNone
    /\ organized = PyNone
    /\ set_order = <<"academic", "government", "general">>
    /\ reports = <<>>

\* the analyst scores any sources, findings and patterns
InitScoring ==
    /\ InitOneStore
    /\ InitTwoStores
    /\ InitCrew
    /\ InitApi
    /\ InitTools
    /\ findings = <<>>
    /\ patterns = PyNone
    /\ contradictions = PyNone
    /\ analysis_input \in
           [sources : ScoredSources, findings : ScoredFindings, patterns : ScoredPatterns]
    /\ confidence_levels = PyNone
    /\ insights_generated = PyNone
    /\ InitSynthesizer

\* the analyst is given any list of findings
InitAnalysis ==
    /\ InitOneStore
    /\ InitTwoStores
    /\ InitCrew
    /\ InitApi
    /\ InitTools
    /\ findings \in FindingLists
    /\ patterns = PyNone
    /\ contradictions = PyNone
    /\ analysis_input = PyNone
    /\ confidence_levels = PyNone
    /\ insights_generated = PyNone
    /\ InitSynthesizer

SpecShort == Init /\ [][NextShort]_vars
SpecLong == Init /\ [][NextLong]_vars
SpecShared == Init /\ [][NextShared]_vars
SpecImport == Init /\ [][NextImport]_vars
SpecCrew == Init /\ [][NextCrew]_vars
SpecApi == Init /\ [][NextApi]_vars
SpecRecent == Init /\ [][NextRecent]_vars
SpecAnalyst == InitAnalysis /\ [][NextAnalyst]_vars
SpecScoring == InitScoring /\ [][NextAnalysis]_vars
SpecTools == Init /\ [][NextTools]_vars
SpecSynthesizer == InitSynthesis /\ [][NextSynthesizer]_vars
SpecOrganize == InitOrganize /\ [][NextOrganize]_vars
SpecReport == InitReport /\ [][NextReport]_vars

(* ================================================================ claims *)

(* C1: short-term memory is last-write-wins.  Every key stored since the   *)
(* last clear_short_term still has its entry, whatever other operations    *)
(* ran since, and the entry holds the value of the latest store for that   *)
(* key; get_short_term never raises and returns that value, or None for a  *)
(* key that was not stored.                                                *)
C1_ShortTermLastWriteWins ==
    /\ \A k \in DOMAIN last_stored :
           k \in DOMAIN short_term /\ short_term[k].value = last_stored[k]
    /\ call.op = "get_short_term" =>
           /\ call.exc = "none"
           /\ call.ret = IF call.key \in DOMAIN last_stored
                         THEN last_stored[call.key] ELSE PyNone

\* k1 was stored before the clock's last tick, k2 was stored with another
\* value after it, and get_short_term("k1") returns k1's value
C1_Witness ==
    /\ call.op = "get_short_term" /\ call.key = "k1" /\ call.ret = PyStr("v2")
    /\ DOMAIN short_term = {"k1", "k2"}
    /\ short_term["k1"].timestamp < short_term["k2"].timestamp
    /\ short_term["k2"].value = PyStr("v1")
    /\ DOMAIN shared_data # {}

\* the last call is store_long_term(category, data, operation)
IsStoreLongTerm(operation) ==
    call.op = "store_long_term" /\ call.operation = operation

\* the category of the last call existed before it
Existed == call.category \in DOMAIN before.long_term

(* C2: store_long_term raises ValueError whenever the operation is         *)
(* 'append' and the category holds a dict when the call is made, or the    *)
(* operation is 'update' and the category holds a list.                    *)
C2_TypeMismatchRaises ==
    (/\ call.op = "store_long_term"
     /\ Existed
     /\ \/ call.operation = "append" /\ IsDict(before.long_term[call.category])
        \/ call.operation = "update" /\ IsList(before.long_term[call.category]))
    => call.exc = "ValueError"

\* 'update' on reliable_sources, which still is a list and holds one element,
\* raises
C2_Witness ==
    /\ IsStoreLongTerm("update") /\ call.category = "reliable_sources"
    /\ IsList(before.long_term["reliable_sources"])
    /\ Len(before.long_term["reliable_sources"].items) = 1
    /\ call.exc = "ValueError"

(* C3: an 'append' or 'update' that returns normally leaves the category   *)
(* with the kind (list or dict) it had, or with the kind it was created    *)
(* with if it is new: list for 'append', dict for 'update'.  No category   *)
(* goes away, and the kind of an existing category changes only in a 'set' *)
(* on that category.                                                       *)
C3_KindKeptByAppendUpdate ==
    /\ (/\ call.op = "store_long_term"
        /\ call.operation \in {"append", "update"}
        /\ call.exc = "none")
       => long_term[call.category].t =
              IF Existed THEN before.long_term[call.category].t
              ELSE IF call.operation = "append" THEN "list" ELSE "dict"
    /\ \A c \in DOMAIN before.long_term :
           /\ c \in DOMAIN long_term
           /\ long_term[c].t # before.long_term[c].t
              => IsStoreLongTerm("set") /\ call.category = c

\* reliable_sources, a list at first, was set to a dict, and an 'update' on
\* it returned normally
C3_Witness ==
    /\ IsStoreLongTerm("update") /\ call.category = "reliable_sources"
    /\ call.exc = "none"
    /\ IsDict(before.long_term["reliable_sources"])
    /\ "identified_patterns" \in DOMAIN long_term
    /\ IsList(long_term["identified_patterns"])

(* C4: 'append' on a category that does not exist creates it and leaves    *)
(* the one-element list [data]; 'append' on a list category returns        *)
(* normally and leaves the previous list followed by data, so that n       *)
(* appends leave the n values in call order; get_long_term returns what    *)
(* the category holds.                                                     *)
C4_AppendAddsAtEnd ==
    /\ (IsStoreLongTerm("append")
        /\ (Existed => IsList(before.long_term[call.category])))
       => /\ call.exc = "none"
          /\ long_term[call.category] =
                 PyList(Append(IF Existed THEN before.long_term[call.category].items
                               ELSE <<>>,
                               call.data))
    /\ call.op = "get_long_term"
       => call.exc = "none" /\ call.ret = DictGet(long_term, call.category)

\* identified_patterns, created by its first append, holds the two appended
\* values in call order, and get_long_term returns them
C4_Witness ==
    /\ call.op = "get_long_term" /\ call.category = "identified_patterns"
    /\ call.ret = PyList(<<DictML, DictAI>>)

(* C5: 'update' with a dict on a category that holds a dict, or that does  *)
(* not exist yet, returns normally and merges: afterwards the category     *)
(* holds the keys it had and the keys of data, the keys of data with       *)
(* data's values, every other key with the value it had.                   *)
C5_UpdateMerges ==
    (/\ IsStoreLongTerm("update")
     /\ IsDict(call.data)
     /\ (Existed => IsDict(before.long_term[call.category])))
    => LET old == IF Existed THEN before.long_term[call.category].d ELSE EmptyDict
           new == long_term[call.category]
       IN  /\ call.exc = "none"
           /\ IsDict(new)
           /\ DOMAIN new.d = DOMAIN old \cup DOMAIN call.data.d
           /\ \A k \in DOMAIN call.data.d : new.d[k] = call.data.d[k]
           /\ \A k \in DOMAIN old \ DOMAIN call.data.d : new.d[k] = old[k]

\* identified_patterns, created by an update, held the keys AI and ML of two
\* updates; a third update overwrites AI and keeps ML
C5_Witness ==
    /\ IsStoreLongTerm("update") /\ call.category = "identified_patterns"
    /\ call.data = DictAI2
    /\ Existed
    /\ before.long_term["identified_patterns"] = PyDict(DictMerge(DictAI.d, DictML.d))
    /\ long_term["identified_patterns"] = PyDict(DictMerge(DictAI2.d, DictML.d))

(* C6: 'set' always returns normally, whether the category is new, holds   *)
(* a list or holds a dict, and afterwards the category holds exactly data. *)
C6_SetReplaces ==
    IsStoreLongTerm("set")
    => /\ call.exc = "none"
       /\ DictGet(long_term, call.category) = call.data

\* a 'set' on a category that held a dict with another key
C6_Witness ==
    /\ IsStoreLongTerm("set") /\ call.category = "reliable_sources"
    /\ before.long_term["reliable_sources"] = DictAI
    /\ call.data = DictML
    /\ "identified_patterns" \notin DOMAIN long_term

(* C7: share_data is an upsert.  After it the agent has one entry, with    *)
(* the data and the priority of the call and accessed_count 0, whatever    *)
(* entry the agent had before; the entries of the other agents are as they *)
(* were, and no entry is added or removed besides.                         *)
C7_ShareDataResetsEntry ==
    call.op = "share_data"
    => /\ call.exc = "none"
       /\ DOMAIN shared_data = DOMAIN before.shared_data \cup {call.agent_id}
       /\ shared_data[call.agent_id].data = call.data
       /\ shared_data[call.agent_id].priority = call.priority
       /\ shared_data[call.agent_id].accessed_count = 0
       /\ \A b \in DOMAIN before.shared_data \ {call.agent_id} :
              shared_data[b] = before.shared_data[b]

\* agent1 shares again, with other data and another priority, after its
\* entry was read twice; the other agent's entry has been read too
C7_Witness ==
    /\ call.op = "share_data" /\ call.agent_id = "agent1"
    /\ "agent1" \in DOMAIN before.shared_data
    /\ before.shared_data["agent1"].accessed_count = 2
    /\ before.shared_data["agent1"].data # call.data
    /\ before.shared_data["agent1"].priority # call.priority
    /\ "" \in DOMAIN shared_data
    /\ shared_data[""].accessed_count = 1

\* the calls that only read the store
ReadOps ==
    {"get_all_shared_data", "get_short_term", "get_long_term",
     "get_memory_stats", "export_memory"}

(* C8: the accessed_count of every shared entry is the number of           *)
(* get_shared_data calls for its agent since the agent's latest            *)
(* share_data.  A hit returns the data and adds exactly 1 to that entry's  *)
(* count and changes nothing else; a miss returns None and changes         *)
(* nothing; the reading calls change nothing.                              *)
C8_AccessedCountCountsReads ==
    /\ \A a \in DOMAIN shared_data :
           a \in DOMAIN reads /\ shared_data[a].accessed_count = reads[a]
    /\ call.op = "get_shared_data"
       => /\ call.exc = "none"
          /\ IF call.agent_id \in DOMAIN before.shared_data
             THEN /\ call.ret = before.shared_data[call.agent_id].data
                  /\ shared_data = [before.shared_data EXCEPT
                         ![call.agent_id].accessed_count = @ + 1]
                  /\ short_term = before.short_term
                  /\ long_term = before.long_term
             ELSE /\ call.ret = PyNone
                  /\ Store = before
    /\ call.op \in ReadOps => Store = before

\* the second get_shared_data("agent1") since agent1 shared: 0, then 1, then 2
C8_Witness ==
    /\ call.op = "get_shared_data" /\ call.agent_id = "agent1"
    /\ "agent1" \in DOMAIN before.shared_data
    /\ before.shared_data["agent1"].accessed_count = 1
    /\ shared_data["agent1"].accessed_count = 2
    /\ reads["agent1"] = 2

(* C9: get_all_shared_data(priority) returns a dict from agent id to the   *)
(* agent's data, whose keys are the agents whose entry has that priority;  *)
(* without a priority its keys are all the agents that have an entry.  The *)
(* priorities are the three levels share_data documents.                   *)
C9_AllSharedDataFilters ==
    call.op = "get_all_shared_data"
    => /\ call.exc = "none"
       /\ IsDict(call.ret)
       /\ DOMAIN call.ret.d =
              IF call.priority = PyNone
              THEN DOMAIN shared_data
              ELSE {a \in DOMAIN shared_data : shared_data[a].priority = call.priority}
       /\ \A a \in DOMAIN call.ret.d : call.ret.d[a] = shared_data[a].data

\* two agents with different priorities; the filter keeps one of them
C9_Witness ==
    /\ call.op = "get_all_shared_data" /\ call.priority = PyStr("high")
    /\ DOMAIN shared_data = {"agent1", ""}
    /\ shared_data["agent1"].priority = PyStr("high")
    /\ shared_data[""].priority = PyStr("normal")
    /\ call.ret = PyDict([a \in {"agent1"} |-> shared_data["agent1"].data])

(* C10: clear_short_term and clear_shared_data never raise.                *)
(* clear_short_term empties short_term and changes nothing else.           *)
(* clear_shared_data(agent_id) removes the entry of that agent, for every  *)
(* agent id, and leaves the other agents' entries; clear_shared_data()     *)
(* removes every entry.  Neither changes short_term or long_term.          *)
C10_ClearsRemoveOnlyTheirOwn ==
    /\ call.op = "clear_short_term"
       => /\ call.exc = "none"
          /\ short_term = EmptyDict
          /\ long_term = before.long_term
          /\ shared_data = before.shared_data
    /\ call.op = "clear_shared_data"
       => /\ call.exc = "none"
          /\ short_term = before.short_term
          /\ long_term = before.long_term
          /\ shared_data = IF call.agent_id = PyNone
                           THEN EmptyDict
                           ELSE DictPop(before.shared_data, call.agent_id.s)

(* C11: export/import round trip.  Right after B.import_memory(            *)
(* A.export_memory()) with the whole snapshot, get_short_term,             *)
(* get_long_term and get_shared_data on B return, for every key, category  *)
(* and agent A held at export time, the value A returns (and returned at   *)
(* export time); B fresh or not.                                           *)
FullImport ==
    /\ mem_call.op = "import_memory"
    /\ mem_call.store # mem_call.source
    /\ DOMAIN mem_call.memory_data = Sections

\* the source's namespace as the export found it
Exported(section) == mem_call.objects[mem_call.memory[mem_call.source][section]]

C11_ExportImportRoundTrip ==
    FullImport =>
        LET a == mem_call.source
            b == mem_call.store
        IN  /\ \A key \in DOMAIN Exported("short_term") :
                   /\ GetShortTerm(Attr(b, "short_term"), key)
                          = GetShortTerm(Attr(a, "short_term"), key)
                   /\ GetShortTerm(Attr(b, "short_term"), key)
                          = GetShortTerm(Exported("short_term"), key)
            /\ \A category \in DOMAIN Exported("long_term") :
                   /\ DictGet(Attr(b, "long_term"), category)
                          = DictGet(Attr(a, "long_term"), category)
                   /\ DictGet(Attr(b, "long_term"), category)
                          = DictGet(Exported("long_term"), category)
            /\ \A agent_id \in DOMAIN Exported("shared_data") :
                   /\ GetSharedData(Attr(b, "shared_data"), agent_id).ret
                          = GetSharedData(Attr(a, "shared_data"), agent_id).ret
                   /\ GetSharedData(Attr(b, "shared_data"), agent_id).ret
                          = GetSharedData(Exported("shared_data"), agent_id).ret

\* a fresh B has imported the whole export of an A that holds a key, a source
\* and an agent's data
C11_Witness ==
    /\ FullImport
    /\ mem_call.store = "B"
    /\ mem_call.memory["B"] = [short_term |-> 4, long_term |-> 5, shared_data |-> 6]
    /\ mem_call.objects[4] = EmptyDict
    /\ mem_call.objects[5] = InitialLongTerm
    /\ mem_call.objects[6] = EmptyDict
    /\ "k1" \in DOMAIN Exported("short_term")
    /\ Len(Exported("long_term")["reliable_sources"].items) > 0
    /\ "agent1" \in DOMAIN Exported("shared_data")
    /\ GetShortTerm(Attr("B", "short_term"), "k1") = PyStr("v1")
    /\ GetSharedData(Attr("B", "shared_data"), "agent1").ret = PyStr("data1")

(* C12: import_memory(snapshot) replaces a namespace if and only if the    *)
(* snapshot contains that section: a section it contains is afterwards     *)
(* what the snapshot holds, a section it lacks is the object it was, with  *)
(* the content it had.                                                     *)
C12_ImportReplacesPresentSections ==
    mem_call.op = "import_memory" =>
        \A section \in Sections :
            LET b == mem_call.store
                was == mem_call.memory[b][section]
            IN  IF section \in DOMAIN mem_call.memory_data
                THEN /\ memory[b][section] = mem_call.memory_data[section]
                     /\ Attr(b, section) = mem_call.objects[mem_call.memory_data[section]]
                ELSE /\ memory[b][section] = was
                     /\ Attr(b, section) = mem_call.objects[was]

\* B, holding shared data and a source of its own, imports a snapshot with the
\* short_term section only, which differs from B's
C12_Witness ==
    /\ mem_call.op = "import_memory"
    /\ DOMAIN mem_call.memory_data = {"short_term"}
    /\ mem_call.memory["B"] = [short_term |-> 4, long_term |-> 5, shared_data |-> 6]
    /\ mem_call.objects[4] = EmptyDict
    /\ "k1" \in DOMAIN Attr("B", "short_term")
    /\ "agent1" \in DOMAIN Attr("B", "shared_data")
    /\ "agent1" \notin DOMAIN Attr("A", "shared_data")
    /\ Len(Attr("B", "long_term")["reliable_sources"].items) = 1
    /\ Len(Attr("A", "long_term")["reliable_sources"].items) = 2

(* C13: every run creates exactly four tasks, in the order planning        *)
(* (coordinator), gathering (gatherer), analysis (analyst), synthesis      *)
(* (synthesizer); gathering is given [planning] as context, analysis       *)
(* [gathering], synthesis [planning, gathering, analysis], planning        *)
(* nothing, so every context holds earlier tasks only; the crew is built   *)
(* with these tasks for sequential execution, and what has been executed   *)
(* is always the first tasks of the list in list order, all four when the  *)
(* run succeeds.                                                           *)
TaskIndex(tasks, name) == CHOOSE i \in 1..Len(tasks) : tasks[i].name = name

C13_FourTasksInOrder ==
    (run.called /\ run.outcome.fail # "create_research_tasks") =>
        LET tasks == run.tasks
        IN  /\ Len(tasks) = 4
            /\ [i \in 1..4 |-> tasks[i].agent]
                   = <<"coordinator", "gatherer", "analyst", "synthesizer">>
            /\ [i \in 1..4 |-> tasks[i].name]
                   = <<"planning_task", "gathering_task", "analysis_task", "synthesis_task">>
            /\ tasks[1].context = <<>>
            /\ tasks[2].context = <<tasks[1].name>>
            /\ tasks[3].context = <<tasks[2].name>>
            /\ tasks[4].context = <<tasks[1].name, tasks[2].name, tasks[3].name>>
            /\ \A i \in 1..4 : \A j \in 1..Len(tasks[i].context) :
                   TaskIndex(tasks, tasks[i].context[j]) < i
            /\ run.outcome.fail # "Crew" =>
                   /\ crew.tasks = tasks
                   /\ crew.process = "sequential"
            /\ Len(run.executed) <= 4
            /\ run.executed = [i \in 1..Len(run.executed) |-> tasks[i].name]
            /\ run.outcome.fail = "none" => Len(run.executed) = 4

\* a run that succeeded, all four tasks executed
C13_Witness ==
    /\ run.called
    /\ run.outcome.fail = "none"
    /\ run.returned.d.success
    /\ run.executed
           = <<"planning_task", "gathering_task", "analysis_task", "synthesis_task">>
    /\ crew # PyNone

(* C14: whatever step of execute_research raises (task creation, building  *)
(* the crew, kickoff, processing the result), the caller gets a result     *)
(* with success = false, error = the exception's message, an empty report  *)
(* and no sources; execute_research does not raise, and it calls kickoff   *)
(* at most once.  (Exceptions are those derived from Exception.)           *)
C14_FailureIsAResult ==
    run.called =>
        /\ ~run.raised
        /\ run.kickoffs <= 1
        /\ run.outcome.fail # "none" =>
               LET response == run.returned.d
               IN  /\ response.success = FALSE
                   /\ response.query = PyStr(run.query)
                   /\ response.error = PyStr(run.outcome.error)
                   /\ response.report = PyDict(EmptyDict)
                   /\ response.sources = PyList(<<>>)

\* kickoff raised when three tasks had completed; and a run failed after
\* kickoff although a completed report was in memory
C14_Witness ==
    /\ run.called
    /\ \/ /\ run.outcome.fail = "kickoff"
          /\ Len(run.executed) = 3
          /\ run.kickoffs = 1
       \/ /\ run.outcome.fail = "results"
          /\ GetShortTerm(short_term, "completed_report") = Report1
    /\ run.returned.d.success = FALSE
    /\ run.returned.d.error = PyStr("Test error")

(* C15: the report of a successful run is the 'completed_report' of        *)
(* short-term memory if there is one and it is not empty; otherwise the    *)
(* sections found in the output by their headers; and if no header         *)
(* matches an output that is not empty, a report whose executive summary   *)
(* is the whole output.                                                    *)
HeaderMatches(text) ==
    \E k \in 1..Len(SectionPatterns) : \E i \in Marks(text) :
        HeaderEnd(text, SectionPatterns[k], i) # 0

SectionsOf(text) ==
    LET has == {k \in 1..Len(SectionPatterns) :
                   SectionContent(text, Marks(text), SectionPatterns[k]) # ""}
    IN  [name \in {SectionPatterns[k].name : k \in has} |->
            LET k == CHOOSE k \in has : SectionPatterns[k].name = name
            IN  PyStr(SectionContent(text, Marks(text), SectionPatterns[k]))]

C15_ReportFallbackChain ==
    (run.called /\ run.outcome.fail = "none") =>
        LET report == run.returned.d.report
            text == run.outcome.text
        IN  IF Truthy(run.completed_report)
            THEN report = run.completed_report
            ELSE /\ (HeaderMatches(text) /\ DOMAIN SectionsOf(text) # {}) =>
                        report = PyDict(SectionsOf(text))
                 /\ (~HeaderMatches(text) /\ text # "") =>
                        /\ "executive_summary" \in DOMAIN report.d
                        /\ report.d["executive_summary"] = PyStr(text)

(* C16: the API creates a fresh memory store for every research request:   *)
(* no two requests that POST /research/sync ran, with or without a config, *)
(* ran against the same ResearchMemory instance, and a request finds       *)
(* nothing in short-term memory that an earlier request wrote.             *)
C16_FreshMemoryPerRequest ==
    /\ \A i \in 1..Len(served) : \A j \in 1..Len(served) :
           i # j => served[i] # served[j]
    /\ request.ran => request.found = EmptyDict

\* the positions of the findings whose text contains the term, in any case
FindingsWith(term) ==
    {i \in 1..Len(findings) : Contains(Content(findings[i]), term)}

KeywordSet == {Keywords[k] : k \in 1..Len(Keywords)}

OpposedPairs ==
    {h \in (1..Len(findings)) \X (1..Len(findings)) \X (1..Len(OpposingPairs)) :
        /\ h[1] < h[2]
        /\ \/ /\ h[1] \in FindingsWith(OpposingPairs[h[3]][1])
              /\ h[2] \in FindingsWith(OpposingPairs[h[3]][2])
           \/ /\ h[1] \in FindingsWith(OpposingPairs[h[3]][2])
              /\ h[2] \in FindingsWith(OpposingPairs[h[3]][1])}

\* the contradiction reported for such a pair
Contradiction(h) ==
    [type |-> "opposing_claims",
     source1 |-> SourceTitle(findings[h[1]]),
     source2 |-> SourceTitle(findings[h[2]]),
     conflict |-> OpposingPairs[h[3]][1] \o " vs " \o OpposingPairs[h[3]][2]]

\* C18: once the contradictions of a list of findings are found, they are one
\* for each pair of two different findings, taken once whatever their order,
\* and each opposing pair (t1, t2) of the lexicon such that one of the two
\* findings contains t1 and the other contains t2 in any case, and there are no
\* others: no finding is paired with itself and no pair is reported twice. For
\* 'sales increase' and 'sales decrease', in either order, the one contradiction
\* is 'increase vs decrease'.
C18_ContradictionDetection ==
    contradictions # PyNone =>
        LET cs == contradictions.items
        IN  /\ Len(cs) = Cardinality(OpposedPairs)
            /\ \A h \in OpposedPairs : \E n \in 1..Len(cs) : cs[n] = Contradiction(h)
            /\ \A n \in 1..Len(cs) :
                   Cardinality({m \in 1..Len(cs) : cs[m] = cs[n]})
                       = Cardinality({h \in OpposedPairs : Contradiction(h) = cs[n]})
            /\ findings \in {<<Finding1, Finding2>>, <<Finding2, Finding1>>} =>
                   /\ Len(cs) = 1
                   /\ cs[1].conflict = "increase vs decrease"

\* 'sales decrease' comes first and 'sales increase' second: the one
\* contradiction is reported with the lexicon's order of the terms.
C18_Witness ==
    /\ contradictions # PyNone
    /\ findings = <<Finding2, Finding1>>
    /\ contradictions.items = << [type |-> "opposing_claims", source1 |-> "Report B",
                                 source2 |-> "Report A",
                                 conflict |-> "increase vs decrease"] >>

\* where the text occurs in the summary
Occurrences(text) ==
    {i \in 1..Len(summary.s) : StartsAt(summary.s, text, i)}

EndsWith(s, suffix) == StartsAt(s, suffix, Len(s) - Len(suffix) + 1)

\* C19: an executive summary ends with the confidence sentence of the overall
\* confidence c it was given (none given counts as 0): the 'high reliability'
\* sentence when c > 0.7, the 'moderate reliability' sentence when
\* 0.5 < c <= 0.7, the 'additional research is recommended' sentence otherwise;
\* it has exactly one confidence sentence; and it states the number of sources
\* and the number of key findings of the gathered information.
C19_SummaryConfidenceSentence ==
    summary # PyNone =>
        LET c == Overall(synthesis_input.analysis_results)
            sentence == IF c > 70 THEN HighSentence
                        ELSE IF 50 < c /\ c <= 70 THEN ModerateSentence
                        ELSE LowSentence
        IN  /\ EndsWith(summary.s, " " \o sentence)
            /\ Cardinality(Occurrences(HighSentence)) + Cardinality(Occurrences(ModerateSentence))
                   + Cardinality(Occurrences(LowSentence)) = 1
            /\ Contains(summary.s,
                   " analysis of " \o Str(SourcesCount(synthesis_input.gathered_info))
                       \o " sources and "
                       \o Str(FindingsCount(synthesis_input.gathered_info))
                       \o " key findings:")

\* The summary of two sources and one finding with overall confidence exactly
\* 0.7, which is moderate, and a sentence on insights and on strong patterns
\* before the confidence sentence.
C19_Witness ==
    /\ summary # PyNone
    /\ Overall(synthesis_input.analysis_results) = 70
    /\ summary.s = "This report addresses the research query: 'AI in healthcare' "
           \o "Based on analysis of 2 sources and 1 key findings: "
           \o "The analysis revealed 2 high-confidence insights. "
           \o "Strong patterns identified in: increase, growth. "
           \o "The findings show moderate reliability with some variations."

\* the scenario: 1 finding, 1 source, overall confidence 0.5
IsScenario ==
    /\ synthesis_input # PyNone
    /\ FindingsCount(synthesis_input.gathered_info) = 1
    /\ SourcesCount(synthesis_input.gathered_info) = 1
    /\ "confidence_levels" \in DOMAIN synthesis_input.analysis_results.d
    /\ "overall" \in DOMAIN synthesis_input.analysis_results.d["confidence_levels"].d
    /\ Overall(synthesis_input.analysis_results) = 50

\* C20, as stated: the executive summary for 1 finding, 1 source and overall
\* confidence 0.5 contains the 'moderate reliability' sentence.
C20_HalfIsModerate ==
    (IsScenario /\ summary # PyNone) => Contains(summary.s, ModerateSentence)

\* C20, amended: the executive summary for 1 finding, 1 source and overall
\* confidence 0.5 contains the 'additional research is recommended' sentence
\* and not the 'moderate reliability' sentence, 0.5 not being above 0.5.
C20_HalfIsLow ==
    (IsScenario /\ summary # PyNone) =>
        /\ Contains(summary.s, LowSentence)
        /\ ~Contains(summary.s, ModerateSentence)

\* The summary of the scenario with nothing else in the analysis.
C20_Witness ==
    /\ IsScenario
    /\ summary # PyNone
    /\ summary.s = "This report addresses the research query: 'AI in healthcare' "
           \o "Based on analysis of 1 sources and 1 key findings: "
           \o "Additional research is recommended to strengthen conclusions."

\* the raw findings and the patterns _organize_findings was given
RawFindings == Get(synthesis_input.gathered_info, "main_findings", PyList(<<>>)).items
GivenPatterns == Get(synthesis_input.analysis_results, "patterns", PyList(<<>>)).items

\* the text of the i-th raw finding contains the k-th pattern's theme, in any case
ThemeIn(k, i) ==
    Contains(Lower(Get(RawFindings[i], "finding", PyStr("")).s),
             Lower(GivenPatterns[k].d["theme"].s))

\* the finding is in the group
InGroup(f, group) ==
    \E n \in 1..Len(group.d["findings"].items) : group.d["findings"].items[n] = f

\* the group of the findings that no pattern claimed
IsAdditional(group) ==
    /\ group.d["theme"] = PyStr("Additional Findings")
    /\ group.d["pattern_strength"] = PyStr("individual")

\* C21: once the findings are organized, every raw finding is in a group: in a
\* group of each pattern whose theme its text contains in any case, a group
\* that carries the theme in title case, and in the 'Additional Findings' group
\* when its text contains no pattern's theme; no finding of the 'Additional
\* Findings' group is in a group of a pattern; and no group is empty.
C21_GroupingLosesNothing ==
    organized # PyNone =>
        LET groups == organized.items
        IN  /\ \A i \in 1..Len(RawFindings) :
                   /\ \A k \in 1..Len(GivenPatterns) :
                          ThemeIn(k, i) =>
                              \E g \in 1..Len(groups) :
                                  /\ ~IsAdditional(groups[g])
                                  /\ groups[g].d["theme"].s
                                         = Title(GivenPatterns[k].d["theme"].s)
                                  /\ InGroup(RawFindings[i], groups[g])
                   /\ (\A k \in 1..Len(GivenPatterns) : ~ThemeIn(k, i)) =>
                          \E g \in 1..Len(groups) :
                              /\ IsAdditional(groups[g])
                              /\ InGroup(RawFindings[i], groups[g])
                   /\ \E g \in 1..Len(groups) : InGroup(RawFindings[i], groups[g])
            /\ \A g \in 1..Len(groups) : \A h \in 1..Len(groups) :
                   (IsAdditional(groups[g]) /\ ~IsAdditional(groups[h])) =>
                       \A n \in 1..Len(groups[g].d["findings"].items) :
                           ~InGroup(groups[g].d["findings"].items[n], groups[h])
            /\ \A g \in 1..Len(groups) : groups[g].d["findings"].items # <<>>
            /\ Cardinality({g \in 1..Len(groups) : IsAdditional(groups[g])}) <= 1

\* 'sales increase' is in the Increase group, 'Positive growth' in the Growth
\* group of the pattern 'Growth', and the finding without a text, twice among
\* the raw findings, is twice in 'Additional Findings'.
C21_Witness ==
    /\ organized # PyNone
    /\ RawFindings = <<Finding6, Finding4, Finding6>>
    /\ GivenPatterns = <<ModeratePattern("Growth"), StrongPattern("increase")>>
    /\ organized.items =
           << PyDict([theme |-> PyStr("Growth"),
                      findings |-> PyList(<<Finding4>>),
                      pattern_strength |-> PyStr("moderate")]),
              PyDict([theme |-> PyStr("Additional Findings"),
                      findings |-> PyList(<<Finding6, Finding6>>),
                      pattern_strength |-> PyStr("individual")]) >>

\* a report without its metadata.created_at
WithoutCreatedAt(report) ==
    [report.d EXCEPT !["metadata"] = PyDict(DictPop(report.d["metadata"].d, "created_at"))]

RECURSIVE Hundredths(_)
Hundredths(sources) ==
    IF sources = <<>> THEN 0
    ELSE (IF "reliability" \in DOMAIN Head(sources) THEN Head(sources).reliability ELSE 50)
         + Hundredths(Tail(sources))

InUnit(x) == AtMost(Fraction(0, 1), x) /\ AtMost(x, Fraction(1, 1))

\* C23: a confidence scoring has four entries: source_reliability, the mean of
\* the reliabilities of the sources and 0 without sources; data_completeness,
\* the least of the number of findings over 10 and 1; consistency, 0.8 whether
\* or not the findings contradict one another; and overall, the third of the
\* sum of these three.  All four lie between 0 and 1.
C23_ConfidenceScoring ==
    confidence_levels # PyNone =>
        LET c == confidence_levels.d
            n == Len(analysis_input.sources)
            f == Len(analysis_input.findings)
        IN  /\ DOMAIN c = {"source_reliability", "data_completeness", "consistency", "overall"}
            /\ IF n = 0 THEN c.source_reliability.num = 0
               ELSE c.source_reliability.num * 100 * n
                        = Hundredths(analysis_input.sources) * c.source_reliability.den
            /\ IF f >= 10 THEN c.data_completeness.num = c.data_completeness.den
               ELSE c.data_completeness.num * 10 = f * c.data_completeness.den
            /\ c.consistency.num * 10 = 8 * c.consistency.den
            /\ Same(Plus(Plus(c.overall, c.overall), c.overall),
                    Plus(Plus(c.source_reliability, c.data_completeness), c.consistency))
            /\ \A k \in DOMAIN c : c[k].den > 0 /\ InUnit(c[k])

\* Three findings with contradictions among them and two sources of
\* reliability 0.85 and 1: 0.925, 0.3 and 0.8 give the overall 0.675.
C23_Witness ==
    /\ confidence_levels # PyNone
    /\ analysis_input.sources = <<[reliability |-> 85], [reliability |-> 100]>>
    /\ analysis_input.findings = <<Finding2, Finding1, Finding2>>
    /\ FindContradictions(analysis_input.findings) # <<>>
    /\ Same(confidence_levels.d.source_reliability, Fraction(925, 1000))
    /\ Same(confidence_levels.d.data_completeness, Fraction(3, 10))
    /\ Same(confidence_levels.d.consistency, Fraction(8, 10))
    /\ Same(confidence_levels.d.overall, Fraction(675, 1000))

\* the insights of the type
OfType(type) == {i \in 1..Len(insights_generated.items) : insights_generated.items[i].type = type}
StrongGiven == {k \in 1..Len(analysis_input.patterns) :
                   analysis_input.patterns[k].strength = "strong"}

\* C24: the insights generated are, in this order, one pattern-based insight
\* of confidence 0.8 for each strong pattern given and none for the others,
\* then a coverage insight of confidence 0.9 exactly when there are more than
\* 5 findings, or a limitation insight of confidence 0.5 exactly when there
\* are fewer than 2; never both, and neither for 2 to 5 findings; and nothing
\* else.
C24_InsightGeneration ==
    insights_generated # PyNone =>
        LET is == insights_generated.items
            f == Len(analysis_input.findings)
            ps == analysis_input.patterns
        IN  /\ Cardinality(OfType("pattern-based")) = Cardinality(StrongGiven)
            /\ \A i \in OfType("pattern-based") :
                   /\ is[i].confidence = 80
                   /\ i <= Cardinality(StrongGiven)
                   /\ \E k \in StrongGiven :
                          /\ Cardinality({j \in StrongGiven : j <= k}) = i
                          /\ is[i].content = "Strong " \o ps[k].theme
                                 \o " trend observed across multiple sources"
                          /\ is[i].supporting_evidence = ps[k].frequency
            /\ Cardinality(OfType("coverage")) = IF f > 5 THEN 1 ELSE 0
            /\ Cardinality(OfType("limitation")) = IF f < 2 THEN 1 ELSE 0
            /\ \A i \in OfType("coverage") : is[i].confidence = 90
            /\ \A i \in OfType("limitation") : is[i].confidence = 50
            /\ OfType("coverage") = {} \/ OfType("limitation") = {}
            /\ (2 <= f /\ f <= 5) => OfType("coverage") \cup OfType("limitation") = {}
            /\ Len(is) = Cardinality(OfType("pattern-based")) + Cardinality(OfType("coverage"))
                             + Cardinality(OfType("limitation"))

\* Two strong patterns around a moderate one and six findings: two
\* pattern-based insights, then the coverage insight.
C24_Witness ==
    /\ insights_generated # PyNone
    /\ Len(analysis_input.findings) = 6
    /\ Len(analysis_input.patterns) = 3
    /\ analysis_input.patterns[2].strength = "moderate"
    /\ Len(insights_generated.items) = 3
    /\ insights_generated.items[1].content = "Strong increase trend observed across multiple sources"
    /\ insights_generated.items[2].content = "Strong impact trend observed across multiple sources"
    /\ insights_generated.items[2].supporting_evidence = 4
    /\ insights_generated.items[3].type = "coverage"
    /\ insights_generated.items[3].supporting_evidence = 6

IsGet(i) == manager_calls[i].op = "get_tools_manager"
ResetBetween(i, j) ==
    \E r \in (i + 1)..(j - 1) : manager_calls[r].op = "reset_tools_manager"

\* C25: of two get_tools_manager calls with no reset_tools_manager between
\* them, the later returns the instance the earlier returned, whatever config
\* it is given; and the first get_tools_manager after a reset returns an
\* instance that no call before the reset returned.
C25_SingletonBetweenResets ==
    \A i \in 1..Len(manager_calls) : \A j \in 1..Len(manager_calls) :
        (i < j /\ IsGet(i) /\ IsGet(j)) =>
            /\ ~ResetBetween(i, j) => manager_calls[j].ret = manager_calls[i].ret
            /\ (manager_calls[j - 1].op = "reset_tools_manager") =>
                   manager_calls[j].ret # manager_calls[i].ret

\* A manager is got, got again with a config, the registry is reset, and a
\* manager is got with the config: the first two are the first instance, made
\* without a config; the last is the second instance, made with it.
C25_Witness ==
    /\ Len(manager_calls) = 4
    /\ manager_calls[1] = [op |-> "get_tools_manager", config |-> PyNone, ret |-> Manager(1)]
    /\ manager_calls[2] = [op |-> "get_tools_manager", config |-> ToolsConfig1,
                           ret |-> Manager(1)]
    /\ manager_calls[3].op = "reset_tools_manager"
    /\ manager_calls[4] = [op |-> "get_tools_manager", config |-> ToolsConfig1,
                           ret |-> Manager(2)]
    /\ managers = <<PyDict(EmptyDict), ToolsConfig1>>
    /\ tools_manager = Manager(2)

\* the records of the last ones of the requests that passed the check
LastArrived ==
    LET n == Len(arrived)
        k == IF n < RecentLimit THEN n ELSE RecentLimit
    IN  [i \in 1..k |-> arrived[n - k + i]]

\* C26: recent_research holds at most 10 records, those of the 10 most recent
\* requests that passed the check of the query, in arrival order; such a
\* request adds exactly one record; and a request whose query is empty or
\* blank is answered 400 without a record and without a run.
C26_RecentKeepsLastTen ==
    /\ [](/\ Len(recent_research) <= RecentLimit
          /\ Len(recent_research) = Len(LastArrived)
          /\ \A i \in 1..Len(recent_research) :
                 /\ i <= Len(LastArrived)
                 /\ recent_research[i].query = LastArrived[i].query
                 /\ recent_research[i].success = LastArrived[i].success)
    /\ [][/\ request'.status = 400 => UNCHANGED <<recent_research, arrived, run, short_term>>
          /\ request'.status # 400 =>
                 /\ Len(arrived') = Len(arrived) + 1
                 /\ \/ recent_research' = Append(recent_research, recent_research'[Len(recent_research')])
                    \/ recent_research'
                           = Append(Tail(recent_research), recent_research'[Len(recent_research')])
       ]_vars

(* C27: a store_long_term call that raises the invalid-operation error     *)
(* leaves the store as it was: the same long-term categories with the same *)
(* values, and short-term and shared data untouched.                       *)
C27_RaisingStoreChangesNothing ==
    (call.op = "store_long_term" /\ call.exc = "ValueError")
    => /\ DOMAIN long_term = DOMAIN before.long_term
       /\ \A c \in DOMAIN long_term : long_term[c] = before.long_term[c]
       /\ short_term = before.short_term
       /\ shared_data = before.shared_data

\* what the reads of store s return: the objects its attributes are bound to
View(s) == [section \in Sections |-> Attr(s, section)]

\* the store a call on s is not made on
Other(s) == IF s = "A" THEN "B" ELSE "A"

(* C28: the two stores are independent, at every step and so at every step *)
(* after B.import_memory(A.export_memory()): a call on one store other     *)
(* than import_memory changes nothing the other store returns (short-term, *)
(* long-term, shared data and its accessed_count values).  The sections B  *)
(* imported are the objects of the exported snapshot, so the same step     *)
(* would alter the snapshot.                                               *)
C28_StoresIndependentAfterImport ==
    [][mem_call'.op # "import_memory"
       => \A section \in Sections :
              objects'[memory'[Other(mem_call'.store)][section]]
                  = objects[memory[Other(mem_call'.store)][section]]
      ]_vars

(* C29: the report of a successful execute_research result belongs to that *)
(* run: when no agent stored a 'completed_report' during the run, the      *)
(* report returned is the one parsed from the run's own output, never one  *)
(* an earlier run left in memory.                                          *)
C29_ReportBelongsToRun ==
    (/\ run.called
     /\ run.returned.d.success
     /\ run.outcome.report = PyNone)
    => run.returned.d.report = run.parsed_report

\* what get_research_history returns in this state
History == GetResearchHistory(short_term).items

(* C30: get_research_history reflects the outcome of the recorded query:   *)
(* it is empty until a run has started and when clear_memory has emptied   *)
(* the memory, it holds at most one entry, and once the execute_research   *)
(* call for the entry's query has returned, the entry's status is          *)
(* 'completed' only if that call returned success, and is never            *)
(* 'in_progress'.                                                          *)
C30_HistoryReflectsOutcome ==
    /\ (~run.called \/ short_term = EmptyDict) => History = <<>>
    /\ Len(History) <= 1
    /\ History # <<>> =>
           /\ run.called
           /\ History[1].d.query = PyStr(run.query)
           /\ History[1].d.status = PyStr("completed") => run.returned.d.success
           /\ History[1].d.status # PyStr("in_progress")

====
